---- MODULE Spec2Model ----
(***************************************************************************)
(* Model of the LSP subsystem of open-ide:                                 *)
(*   - StdioLspClient  (src/src/adapters/clipboard.ts, JSON-RPC client)    *)
(*   - StdioLspAdapter (src/src/adapters/clipboard.ts, server registry)    *)
(*   - LspRuntime      (src/src/adapters/settings.ts:153-803, synchronizer)*)
(*                                                                         *)
(* Scheduling.  The program runs on one JavaScript event loop.  One step   *)
(* of the model is one macrotask (a store dispatch, a timer, an I/O        *)
(* completion) together with the microtasks it queues: code after an       *)
(* `await` of a settled promise runs inside the same step, code after an   *)
(* `await` of a pending promise runs in the step that settles it.          *)
(***************************************************************************)
EXTENDS Integers, Sequences, FiniteSets, TLC

VARIABLES
    \* the application store (external collaborator)
    buffers,                    \* state.buffers: buffer id -> BufferState
    rootPath,                   \* state.workspace.rootPath
    userActions,                \* how many actions the user has dispatched
    \* LspRuntime
    started,                    \* LspRuntime.started (the store listener is subscribed)
    previousState,              \* LspRuntime.previousState (buffers and root)
    documents,                  \* LspRuntime.documents: buffer id -> TrackedDocument
    docs,                       \* the TrackedDocument objects, by object id
    uriToBufferIds,             \* LspRuntime.uriToBufferIds: the Map, uri -> Set of buffer ids
    changeTimers,               \* LspRuntime.changeTimers: buffer ids with an entry
    debounce,                   \* armed didChange timers (setTimeout), per buffer
    initializingClients,        \* LspRuntime.initializingClients: language -> acquisition
    initializedLanguages,       \* LspRuntime.initializedLanguages
    diagnosticsBoundLanguages,  \* LspRuntime.diagnosticsBoundLanguages
    activeLanguages,            \* LspRuntime.activeLanguages, in insertion order
    tasks,                      \* async tasks suspended on a document's openPromise
    restarts,                   \* stopAllServers() calls of handleWorkspaceChange in flight
    \* StdioLspAdapter and StdioLspClient
    registry,                   \* StdioLspAdapter.clients: language -> client id
    clients,                    \* the StdioLspClient objects ever constructed, by client id
    \* the stdout framer of one client (SpecFramer)
    wire,                       \* what the server writes to stdout and how much was read
    framer,                     \* StdioLspClient.receiveBuffer and the messages handled
    \* history
    event,                      \* the client event this step handled (recorded under SpecClient)
    sent,                       \* document notifications the runtime handed to clients in this step
    dispatched,                 \* actions the runtime dispatched to the store in this step
    acquired                    \* the ensureClient acquisitions that settled in this step

storeVars == <<buffers, rootPath, userActions>>

runtimeVars ==
    <<started, previousState, documents, docs, uriToBufferIds, changeTimers, debounce,
      initializingClients, initializedLanguages, diagnosticsBoundLanguages,
      activeLanguages, tasks, restarts>>

framerVars == <<wire, framer>>

vars ==
    <<storeVars, runtimeVars, registry, clients, framerVars, event, sent, dispatched,
      acquired>>

\* ------------------------------------------------------------------ bounds
MaxClients == 3      \* client objects constructed in one behaviour
MaxRequests == 2     \* requests one client issues in SpecClient
MaxDocs == 4         \* TrackedDocument objects created in one behaviour
MaxEdits == 2        \* content changes per buffer
MaxRoots == 2        \* workspace roots seen in one behaviour
MaxUserActions == 3  \* store actions the user dispatches in one behaviour
MaxSends == 1        \* notifications and error responses callers and server requests add

ClientIds == 1..MaxClients
DocIds == 1..MaxDocs

\* ---------------------------------------------------------- the environment
BufferOrder == <<"b1", "b2">>
Buffers == {BufferOrder[i] : i \in DOMAIN BufferOrder}
Paths == {"/w/a.ts", "/w/b.py"}

\* The language the editor detects for a file, from its extension.
DetectedLanguage(path) == IF path = "/w/b.py" THEN "python" ELSE "typescript"

\* Two files of one language, for the editor of SpecTwoFiles.
TypescriptPaths == {"/w/a.ts", "/w/c.ts"}

\* The languages settings.lspServers configures (setServerConfigs).
Configs == {"typescript", "python"}
LanguageOrder == <<"typescript", "python">>

\* ------------------------------------------------- StdioLspClient (object)
Message(kind, id, method) == [kind |-> kind, id |-> id, method |-> method]

\* A slot of the client table that holds no object yet.
NoClientObject ==
    [ spawned |-> FALSE, language |-> "none", command |-> "none", isReady |-> FALSE,
      initialized |-> FALSE, closed |-> FALSE, nextRequestId |-> 1,
      pendingRequests |-> {}, timeouts |-> {}, diagnosticsCallbacks |-> 0,
      writeQueue |-> <<>>, writing |-> FALSE, exited |-> FALSE, kills |-> 0,
      initPc |-> "idle", shutdownPc |-> "idle",
      issued |-> <<>>, settled |-> <<>>, sendOrder |-> <<>>, written |-> <<>>,
      returned |-> <<>>, openedUris |-> {}, rootUri |-> 0 ]

\* Field initialisers and constructor.  pendingRequests is the Map id ->
\* PendingRequest, kept as a set of [id, method]; timeouts is the set of ids
\* whose setTimeout handle is armed; exited says process.exited has resolved;
\* kills counts process.kill() calls; initPc / shutdownPc are the positions of
\* the initialize() and shutdown() calls in flight on this client.
\* writeQueue is the promise chain of enqueueMessage: the packets whose link
\* has not finished, oldest first; writing says the head's writer.write is
\* awaiting completion.
\* issued and settled are history: the ids handed out by sendRequest, in
\* order, and the resolve / reject calls made on pending entries; sendOrder
\* and written are history too: the packets in the order of the
\* enqueueMessage calls, and the packets writer.write completed, in order.
NewClient(language) ==
    [NoClientObject EXCEPT !.spawned = TRUE, !.language = language]

PendingIds(cl) == {p.id : p \in cl.pendingRequests}

PendingOf(cl, method) == {p \in cl.pendingRequests : p.method = method}

\* Mutant of EnqueueMessage: the write is not chained on writeQueue, so it
\* overtakes the packets still waiting for an earlier write.
EnqueueMessageUnchained(cl, msg) ==
    [cl EXCEPT !.writeQueue = IF cl.writing THEN <<Head(@), msg>> \o Tail(@)
                              ELSE <<msg>> \o @,
               !.sendOrder = Append(@, msg)]

\* enqueueMessage: the packet's write is chained on writeQueue; the write
\* itself is a later step (WriteStarts, WriteNext).
EnqueueMessage(cl, msg) ==
    [cl EXCEPT !.writeQueue = Append(@, msg), !.sendOrder = Append(@, msg)]

\* Mutant of SendRequest: the id is derived from the table size, so an id is
\* handed out again once an earlier request has been settled.
SendRequestReusingIds(cl, method) ==
    IF cl.closed THEN cl
    ELSE LET id == Cardinality(cl.pendingRequests) + 1 IN
         EnqueueMessage(
            [cl EXCEPT !.nextRequestId = id + 1,
                       !.timeouts = @ \cup {id},
                       !.pendingRequests = @ \cup {[id |-> id, method |-> method]},
                       !.issued = Append(@, id)],
            Message("request", id, method))

\* sendRequest.  On a closed client it throws before an id is allocated (the
\* record is returned unchanged; callers test cl.closed).  Otherwise: id =
\* nextRequestId++, arm the timeout, insert the pending entry, enqueue.
SendRequest(cl, method) ==
    IF cl.closed THEN cl
    ELSE LET id == cl.nextRequestId IN
         EnqueueMessage(
            [cl EXCEPT !.nextRequestId = id + 1,
                       !.timeouts = @ \cup {id},
                       !.pendingRequests = @ \cup {[id |-> id, method |-> method]},
                       !.issued = Append(@, id)],
            Message("request", id, method))

\* sendNotification: dropped silently on a closed client.
SendNotification(cl, method) ==
    IF cl.closed THEN cl ELSE EnqueueMessage(cl, Message("notification", 0, method))

\* sendErrorResponse (code -32601 for a server-initiated request).
ErrorResponse(id, code) == [kind |-> "error", id |-> id, method |-> "none", code |-> code]

SendErrorResponse(cl, id, code) ==
    IF cl.closed THEN cl ELSE EnqueueMessage(cl, ErrorResponse(id, code))

Settle(cl, id, kind) == [cl EXCEPT !.settled = Append(@, [id |-> id, kind |-> kind])]

SettleCount(cl, id) == Cardinality({i \in DOMAIN cl.settled : cl.settled[i].id = id})

RECURSIVE RejectAll(_, _)
RejectAll(cl, ids) ==
    IF ids = {} THEN cl
    ELSE LET id == CHOOSE i \in ids : \A j \in ids : i <= j IN
         RejectAll(Settle(cl, id, "reject"), ids \ {id})

\* Mutant of HandleProcessClosed: the `if (this.closed) return` guard is
\* missing, so every close trigger runs the teardown again.
HandleProcessClosedUnguarded(cl) ==
    [RejectAll(cl, PendingIds(cl)) EXCEPT
        !.closed = TRUE, !.isReady = FALSE,
        !.pendingRequests = {}, !.timeouts = {},
        !.kills = @ + 1]

\* Mutant of HandleProcessClosed: pending entries are rejected but the table is
\* not cleared.
HandleProcessClosedKeepsEntries(cl) ==
    IF cl.closed THEN cl
    ELSE [RejectAll(cl, PendingIds(cl)) EXCEPT
            !.closed = TRUE, !.isReady = FALSE, !.timeouts = {},
            !.kills = @ + 1]

\* handleProcessClosed: once only; closed, not ready, every pending entry has
\* its timeout cleared and is rejected (Map order = id order), the table is
\* cleared, the process is killed.
HandleProcessClosed(cl) ==
    IF cl.closed THEN cl
    ELSE [RejectAll(cl, PendingIds(cl)) EXCEPT
            !.closed = TRUE, !.isReady = FALSE,
            !.pendingRequests = {}, !.timeouts = {},
            !.kills = @ + 1]

\* Mutant of HandleResponse: the timeout of the answered request is not
\* cleared.
HandleResponseKeepsTimeout(cl, id, isError) ==
    IF id \notin PendingIds(cl) THEN cl
    ELSE Settle([cl EXCEPT !.pendingRequests = {p \in @ : p.id # id}],
                id, IF isError THEN "reject" ELSE "resolve")

\* Mutant of HandleResponse: an error response is treated as a transport
\* failure and tears the client down.
HandleResponseErrorCloses(cl, id, isError) ==
    IF id \notin PendingIds(cl) THEN cl
    ELSE IF isError THEN HandleProcessClosed(cl)
    ELSE Settle([cl EXCEPT !.pendingRequests = {p \in @ : p.id # id},
                           !.timeouts = @ \ {id}],
                id, "resolve")

\* handleResponse for a numeric id: unknown id -> return; otherwise clear the
\* timeout, delete the entry, reject on an error object, else resolve.
HandleResponse(cl, id, isError) ==
    IF id \notin PendingIds(cl) THEN cl
    ELSE Settle([cl EXCEPT !.pendingRequests = {p \in @ : p.id # id},
                           !.timeouts = @ \ {id}],
                id, IF isError THEN "reject" ELSE "resolve")

\* Mutant of RequestTimedOut: the timeout is treated as a dead server.
RequestTimedOutCloses(cl, id) ==
    HandleProcessClosed(cl)

\* Mutant of RequestTimedOut: the caller is rejected but the entry stays.
RequestTimedOutKeepsEntry(cl, id) ==
    Settle([cl EXCEPT !.timeouts = @ \ {id}], id, "reject")

\* The setTimeout callback of sendRequest: delete the entry, reject.
RequestTimedOut(cl, id) ==
    Settle([cl EXCEPT !.timeouts = @ \ {id},
                      !.pendingRequests = {p \in @ : p.id # id}],
           id, "reject")

\* shutdown() after its request has settled either way: send "exit", then
\* race process.exited against delay(500); when exited has already resolved
\* the race is won at once and handleProcessClosed runs.
ShutdownAfterRequest(cl) ==
    LET c1 == SendNotification(cl, "exit") IN
    IF c1.exited
    THEN [HandleProcessClosed(c1) EXCEPT !.shutdownPc = "done"]
    ELSE [c1 EXCEPT !.shutdownPc = "race"]

\* initialize() after its request has settled: on a result send
\* "initialized", set initialized and isReady; on a rejection it throws.
InitializeAfterRequest(cl, kind) ==
    IF kind = "resolve"
    THEN [SendNotification(cl, "initialized") EXCEPT
            !.initialized = TRUE, !.isReady = TRUE, !.initPc = "returned"]
    ELSE [cl EXCEPT !.initPc = "threw"]

LastKind(cl, id) ==
    LET idx == {i \in DOMAIN cl.settled : cl.settled[i].id = id}
        last == CHOOSE i \in idx : \A j \in idx : j <= i
    IN cl.settled[last].kind

\* Mutant of CompletionOrHoverReturns: a rejection is caught and an empty
\* result returned.
CompletionOrHoverCatches(kind) == "result"

\* completion() / hover() after `await this.sendRequest(...)`: a result is
\* normalized and returned ("result": a list, possibly empty, or hover info
\* or null); a rejection is not caught and reaches the caller ("error").
CompletionOrHoverReturns(kind) == IF kind = "reject" THEN "error" ELSE "result"

\* The completion() and hover() calls whose requests were settled return to
\* their callers (returned is history).
RECURSIVE CallersReturn(_, _)
CallersReturn(cl, done) ==
    IF done = {} THEN cl
    ELSE LET p == CHOOSE x \in done : \A y \in done : x.id <= y.id IN
         CallersReturn(
            [cl EXCEPT !.returned =
                Append(@, [id |-> p.id, method |-> p.method,
                           outcome |-> CompletionOrHoverReturns(LastKind(cl, p.id))])],
            done \ {p})

\* The continuations of the calls awaiting a request that this step settled:
\* before / after are the client before and after the event.
ResumeCallers(before, after) ==
    LET done == before.pendingRequests \ after.pendingRequests
        inits == {p \in done : p.method = "initialize"}
        shuts == {p \in done : p.method = "shutdown"}
        c1 == IF inits # {} /\ after.initPc = "awaiting"
              THEN InitializeAfterRequest(after, LastKind(after, (CHOOSE p \in inits : TRUE).id))
              ELSE after
        c2 == IF shuts # {} /\ c1.shutdownPc = "request"
              THEN ShutdownAfterRequest(c1)
              ELSE c1
    IN CallersReturn(c2, {p \in done : p.method \in {"textDocument/completion",
                                                     "textDocument/hover"}})

\* Mutant of Initialize: the `this.initialized` half of the guard is missing,
\* so a ready client sends the initialize request again.
InitializeResends(cl) ==
    IF cl.closed
    THEN [cl EXCEPT !.isReady = FALSE, !.initPc = "returned"]
    ELSE [SendRequest(cl, "initialize") EXCEPT !.initPc = "awaiting"]

\* initialize(rootUri).
Initialize(cl) ==
    IF cl.closed \/ cl.initialized
    THEN [cl EXCEPT !.isReady = ~cl.closed, !.initPc = "returned"]
    ELSE [SendRequest(cl, "initialize") EXCEPT !.initPc = "awaiting"]

\* initialize(rootUri) with its argument: rootUri is history, the root the
\* client's initialize request carried (0: no request was sent).
InitializeWith(cl, root) ==
    [Initialize(cl) EXCEPT !.rootUri = IF cl.closed \/ cl.initialized THEN @ ELSE root]

\* shutdown() up to its first suspension.
Shutdown(cl) ==
    IF cl.closed
    THEN [cl EXCEPT !.shutdownPc = "done"]
    ELSE [SendRequest(cl, "shutdown") EXCEPT !.shutdownPc = "request"]

\* A response for `id` arrives on stdout.
ResponseArrived(cl, id, isError) ==
    ResumeCallers(cl, HandleResponse(cl, id, isError))

\* The timeout of request `id` fires.
TimeoutFired(cl, id) ==
    ResumeCallers(cl, RequestTimedOut(cl, id))

\* process.exited resolves: the constructor's handler runs handleProcessClosed;
\* a shutdown() waiting in its race continues and runs it again.
ProcessExited(cl) ==
    LET c0 == [cl EXCEPT !.exited = TRUE]
        c1 == ResumeCallers(c0, HandleProcessClosed(c0))
    IN IF c1.shutdownPc = "race"
       THEN [HandleProcessClosed(c1) EXCEPT !.shutdownPc = "done"]
       ELSE c1

\* readStdout sees done (EOF) or a read error: its finally block runs
\* handleProcessClosed.
StdoutEnded(cl) ==
    ResumeCallers(cl, HandleProcessClosed(cl))

\* The chunk that carries the response for `id` is the last one and stdout has
\* already ended when readStdout reads it: consumeChunk runs handleResponse,
\* the next reader.read() is settled with done, so the finally block of
\* readStdout runs handleProcessClosed one microtask later, before the
\* caller awaiting the request (two promise hops away) continues.
ResponseThenStdoutEnded(cl, id, isError) ==
    ResumeCallers(cl, HandleProcessClosed(HandleResponse(cl, id, isError)))

\* Mutant of ShutdownDelayElapsed: shutdown() returns after the delay
\* without tearing the client down.
ShutdownDelayElapsedKeepsOpen(cl) ==
    [cl EXCEPT !.shutdownPc = "done"]

\* The delay(500) of shutdown()'s race elapses first.
ShutdownDelayElapsed(cl) ==
    [HandleProcessClosed(cl) EXCEPT !.shutdownPc = "done"]

\* Mutant of WriteStarted: the link does not test `closed`.
WriteStartedIgnoresClosed(cl) ==
    [cl EXCEPT !.writing = TRUE]

\* The link at the head of writeQueue runs: it returns at once when the
\* client is closed, else it calls writer.write(packet) and awaits it.
WriteStarted(cl) ==
    IF cl.closed THEN [cl EXCEPT !.writeQueue = Tail(@)]
    ELSE [cl EXCEPT !.writing = TRUE]

\* writer.write(packet) of the head resolves: the whole packet is written.
WriteDone(cl) ==
    [cl EXCEPT !.writeQueue = Tail(@), !.writing = FALSE,
               !.written = Append(@, Head(cl.writeQueue))]

\* writer.write rejects: the catch handler runs handleProcessClosed.
WriteFailed(cl) ==
    LET c0 == [cl EXCEPT !.writeQueue = Tail(@), !.writing = FALSE] IN
    ResumeCallers(c0, HandleProcessClosed(c0))

\* handleMessage for a server request (method and id, no result or error).
ServerRequestArrived(cl, id) == SendErrorResponse(cl, id, -32601)

\* A parsed message from the server, by the fields the dispatch looks at:
\* whether it is an object, whether it has an id (and whether the id is a
\* number), its method ("none" when it has no string method), and whether
\* it has a result or an error field.
NoMethod == "none"

Incoming(isRecord, hasId, numericId, id, method, body) ==
    [isRecord |-> isRecord, hasId |-> hasId, numericId |-> numericId, id |-> id,
     method |-> method, hasResultOrError |-> body # "none", isError |-> body = "error"]

\* The same dispatch with the method looked at before the response fields.
HandleMessageMethodFirst(cl, m) ==
    IF ~m.isRecord THEN cl
    ELSE IF m.method = "textDocument/publishDiagnostics" THEN cl
    ELSE IF m.method # NoMethod /\ m.hasId THEN SendErrorResponse(cl, m.id, -32601)
    ELSE IF m.hasId /\ m.hasResultOrError /\ m.numericId THEN HandleResponse(cl, m.id, m.isError)
    ELSE cl

\* handleMessage: a message with an id and a result or error goes to
\* handleResponse (which ignores an id that is not a number); otherwise a
\* message without a method is dropped, publishDiagnostics goes to the
\* diagnostics callbacks, and any other method with an id is answered with
\* error -32601.
HandleMessage(cl, m) ==
    IF ~m.isRecord THEN cl
    ELSE IF m.hasId /\ m.hasResultOrError
         THEN IF m.numericId THEN HandleResponse(cl, m.id, m.isError) ELSE cl
    ELSE IF m.method = NoMethod THEN cl
    ELSE IF m.method = "textDocument/publishDiagnostics" THEN cl
    ELSE IF m.hasId THEN SendErrorResponse(cl, m.id, -32601)
    ELSE cl

\* consumeChunk hands one parsed message to handleMessage.
MessageArrived(cl, m) == ResumeCallers(cl, HandleMessage(cl, m))

\* --------------------------------------------- message framing (bytes)
\* A byte is a string: "CR" and "LF" are 13 and 10, "C" stands for the text
\* Content-Length, the other bytes are themselves.
Digits == <<"0", "1", "2", "3", "4", "5", "6", "7", "8", "9">>

IsDigit(byte) == \E i \in DOMAIN Digits : Digits[i] = byte

DigitValue(byte) == (CHOOSE i \in DOMAIN Digits : Digits[i] = byte) - 1

\* String(n) for n >= 0.
RECURSIVE DecimalDigits(_)
DecimalDigits(n) ==
    IF n < 10 THEN <<Digits[n + 1]>>
    ELSE Append(DecimalDigits(n \div 10), Digits[(n % 10) + 1])

\* Number.parseInt(value, 10) on trimmed text: the leading digits; -1 stands
\* for NaN.
RECURSIVE ParseDigits(_, _)
ParseDigits(text, acc) ==
    IF text = <<>> \/ ~IsDigit(Head(text)) THEN acc
    ELSE ParseDigits(Tail(text), 10 * (IF acc < 0 THEN 0 ELSE acc) + DigitValue(Head(text)))

ParseInt(text) == ParseDigits(text, -1)

\* String.prototype.trim on the bytes of a header line.
RECURSIVE TrimStart(_)
TrimStart(text) ==
    IF text # <<>> /\ Head(text) = " " THEN TrimStart(Tail(text)) ELSE text

RECURSIVE TrimEnd(_)
TrimEnd(text) ==
    IF text # <<>> /\ text[Len(text)] = " "
    THEN TrimEnd(SubSeq(text, 1, Len(text) - 1)) ELSE text

Trim(text) == TrimEnd(TrimStart(text))

\* headers.split("\r\n")
RECURSIVE SplitLines(_, _)
SplitLines(text, line) ==
    IF text = <<>> THEN <<line>>
    ELSE IF Len(text) >= 2 /\ text[1] = "CR" /\ text[2] = "LF"
    THEN <<line>> \o SplitLines(SubSeq(text, 3, Len(text)), <<>>)
    ELSE SplitLines(Tail(text), Append(line, Head(text)))

\* line.indexOf(":"), 0-based, -1 when absent.
IndexOfColon(line) ==
    IF \E i \in DOMAIN line : line[i] = ":"
    THEN (CHOOSE i \in DOMAIN line : line[i] = ":" /\ \A j \in 1..(i - 1) : line[j] # ":") - 1
    ELSE -1

\* parseContentLength: the first line whose key is content-length decides;
\* -1 stands for null.
RECURSIVE parseContentLengthLines(_)
parseContentLengthLines(lines) ==
    IF lines = <<>> THEN -1
    ELSE IF IndexOfColon(Head(lines)) = -1
            \/ Trim(SubSeq(Head(lines), 1, IndexOfColon(Head(lines)))) # <<"C">>
    THEN parseContentLengthLines(Tail(lines))
    ELSE ParseInt(Trim(SubSeq(Head(lines), IndexOfColon(Head(lines)) + 2,
                              Len(Head(lines)))))

parseContentLength(headers) == parseContentLengthLines(SplitLines(headers, <<>>))

\* findHeaderEnd: the 0-based index of the first \r\n\r\n, -1 when absent.
findHeaderEnd(buffer) ==
    IF \E i \in 0..(Len(buffer) - 4) :
            <<buffer[i + 1], buffer[i + 2], buffer[i + 3], buffer[i + 4]>>
                = <<"CR", "LF", "CR", "LF">>
    THEN CHOOSE i \in 0..(Len(buffer) - 4) :
            /\ <<buffer[i + 1], buffer[i + 2], buffer[i + 3], buffer[i + 4]>>
                = <<"CR", "LF", "CR", "LF">>
            /\ \A j \in 0..(i - 1) :
                <<buffer[j + 1], buffer[j + 2], buffer[j + 3], buffer[j + 4]>>
                    # <<"CR", "LF", "CR", "LF">>
    ELSE -1

\* buffer.slice(from, to) with 0-based, end-exclusive indices.
Slice(buffer, from, to) == SubSeq(buffer, from + 1, to)

\* JSON.parse: white space is insignificant; the value is the text without
\* it.  The texts the model knows as JSON are JsonTexts.
RECURSIVE StripWhitespace(_)
StripWhitespace(text) ==
    IF text = <<>> THEN <<>>
    ELSE IF Head(text) \in {"CR", "LF", " "} THEN StripWhitespace(Tail(text))
    ELSE <<Head(text)>> \o StripWhitespace(Tail(text))

JsonTexts == {<<"{", "}">>, <<"1">>, <<"\"", "eacute", "\"">>}

\* Mutant of JsonParses: every body is taken for JSON.
JsonParsesAnything(body) == TRUE

JsonParses(body) == StripWhitespace(body) \in JsonTexts

\* TextEncoder.encode: a text is a sequence of characters; "eacute" is the
\* character U+00E9, whose UTF-8 form is the two bytes C3 A9; every other
\* character of the model is one byte, named like the character.
RECURSIVE Utf8Encode(_)
Utf8Encode(text) ==
    IF text = <<>> THEN <<>>
    ELSE (IF Head(text) = "eacute" THEN <<"C3", "A9">> ELSE <<Head(text)>>)
            \o Utf8Encode(Tail(text))

\* TextDecoder.decode: C3 A9 is U+00E9; a lead or continuation byte that is
\* not part of a well-formed sequence decodes to U+FFFD.
RECURSIVE Utf8Decode(_)
Utf8Decode(bytes) ==
    IF bytes = <<>> THEN <<>>
    ELSE IF Len(bytes) >= 2 /\ bytes[1] = "C3" /\ bytes[2] = "A9"
    THEN <<"eacute">> \o Utf8Decode(SubSeq(bytes, 3, Len(bytes)))
    ELSE IF Head(bytes) \in {"C3", "A9"}
    THEN <<"U+FFFD">> \o Utf8Decode(Tail(bytes))
    ELSE <<Head(bytes)>> \o Utf8Decode(Tail(bytes))

\* Mutant of encodeMessage: Content-Length is the number of characters of
\* the JSON text.
encodeMessageCountsCharacters(payload) ==
    <<"C", ":", " ">> \o DecimalDigits(Len(payload)) \o <<"CR", "LF", "CR", "LF">>
        \o Utf8Encode(payload)

\* encodeMessage: payload is the text JSON.stringify(message); the packet is
\* the Content-Length header with the byte length of the encoded payload, a
\* blank line, and the encoded payload.
encodeMessage(payload) ==
    <<"C", ":", " ">> \o DecimalDigits(Len(Utf8Encode(payload)))
        \o <<"CR", "LF", "CR", "LF">> \o Utf8Encode(payload)

\* consumeChunk after the concatenation: the while loop.  f is the framer
\* [receiveBuffer, delivered]; delivered lists the values handed to
\* handleMessage.
RECURSIVE ConsumeLoop(_)
ConsumeLoop(f) ==
    LET Body(headerEnd, contentLength) ==
            IF contentLength = -1
            THEN ConsumeLoop([f EXCEPT !.receiveBuffer =
                                Slice(@, headerEnd + 4, Len(@))])
            ELSE IF Len(f.receiveBuffer) < headerEnd + 4 + contentLength
            THEN f
            ELSE ConsumeLoop(
                    [receiveBuffer |->
                        Slice(f.receiveBuffer, headerEnd + 4 + contentLength,
                              Len(f.receiveBuffer)),
                     delivered |->
                        IF JsonParses(Utf8Decode(Slice(f.receiveBuffer, headerEnd + 4,
                                                       headerEnd + 4 + contentLength)))
                        THEN Append(f.delivered,
                                StripWhitespace(Utf8Decode(
                                    Slice(f.receiveBuffer, headerEnd + 4,
                                          headerEnd + 4 + contentLength))))
                        ELSE f.delivered])
        Header(headerEnd) ==
            IF headerEnd = -1 THEN f
            ELSE Body(headerEnd, parseContentLength(Slice(f.receiveBuffer, 0, headerEnd)))
    IN Header(findHeaderEnd(f.receiveBuffer))

\* Mutant of consumeChunk: the received bytes are not kept between chunks.
consumeChunkForgets(f, chunk) ==
    ConsumeLoop([f EXCEPT !.receiveBuffer = chunk])

consumeChunk(f, chunk) ==
    ConsumeLoop([f EXCEPT !.receiveBuffer = @ \o chunk])

\* receiveBuffer = new Uint8Array(0); nothing handled yet.
NewFramer == [receiveBuffer |-> <<>>, delivered |-> <<>>]

\* The bytes a server writes for a sequence of payloads.
RECURSIVE EncodeAll(_)
EncodeAll(payloads) ==
    IF payloads = <<>> THEN <<>>
    ELSE encodeMessage(Head(payloads)) \o EncodeAll(Tail(payloads))

\* wire: the payloads the server wrote, their bytes, how many bytes
\* reader.read() has returned so far, and where the reads cut the stream.
NoWire == [payloads |-> <<>>, bytes |-> <<>>, fed |-> 0, cuts |-> {}]

\* JSON texts a server sends; the last one has \r\n\r\n inside the body.
Payloads == {<<"1">>, <<"{", "}">>, <<"{", "CR", "LF", "CR", "LF", "}">>}

MaxMessages == 2

Streams ==
    UNION {[1..n -> Payloads] : n \in 1..MaxMessages}

\* The number of bytes up to the last body byte of message i.
EndOfMessage(payloads, i) == Len(EncodeAll(SubSeq(payloads, 1, i)))

\* Where a cut after position bytes falls: in the header text, inside the
\* \r\n\r\n terminator, in the body, or between two messages.
CutKind(payloads, position) ==
    LET i == CHOOSE k \in DOMAIN payloads :
                EndOfMessage(payloads, k - 1) <= position
                /\ position < EndOfMessage(payloads, k)
        Kind(offset, bodyStart) ==
            IF offset = 0 THEN "boundary"
            ELSE IF offset <= bodyStart - 4 THEN "header"
            ELSE IF offset < bodyStart THEN "terminator"
            ELSE "body"
    IN Kind(position - EndOfMessage(payloads, i - 1),
            Len(encodeMessage(payloads[i])) - Len(Utf8Encode(payloads[i])))

\* ------------------------------------------------------- application store
\* The store is an external collaborator (subscribe / getState / dispatch).
\* A buffer id is used once: "unopened" -> "open" -> "closed".
NoBuffer ==
    [status |-> "unopened", filePath |-> "none", language |-> "none",
     content |-> 0, isDirty |-> FALSE]

ClosedBuffer == [NoBuffer EXCEPT !.status = "closed"]

InitStore ==
    /\ buffers = [b \in Buffers |-> NoBuffer]
    /\ rootPath = 1
    /\ userActions = 0

\* The part of AppState the runtime reads: state.buffers, state.workspace.rootPath.
StoreState(s) == [buffers |-> s.buffers, rootPath |-> s.rootPath]

\* state.buffers.has(id)
Has(state, b) == state.buffers[b].status = "open"

\* ------------------------------------------------------------- LspRuntime
\* Handlers are functions on the record s of all variables (St below); an
\* action applies the handler of its event and then the microtasks (Drain).
DID_CHANGE_DEBOUNCE_MS == 200

\* pathToFileURL(path).toString()
Uri(path) == <<"file://", path>>

Uris == {Uri(p) : p \in Paths \cup TypescriptPaths}

SERVER_LANGUAGE_ALIASES ==
    [l \in {"javascript", "javascriptreact", "typescriptreact"} |-> "typescript"]

\* The command settings.lspServers configures for a language; a command
\* name stands for the key command + args of buildFallbackKey.
ConfigCommand(language) ==
    IF language = "typescript" THEN "typescript-language-server" ELSE "pylsp"

\* The fallbacks getServerFallbackConfigs pushes before removing duplicates:
\* typescript adds bunx, python adds ruff, ruff-lsp and pylsp.
Fallbacks(language) ==
    CASE language = "typescript" -> <<"bunx">>
      [] language = "python" -> <<"ruff", "ruff-lsp", "pylsp">>
      [] OTHER -> <<>>

\* The loop over fallbacks with the set `seen`.
RECURSIVE UniqueFallbacks(_, _)
UniqueFallbacks(fallbacks, seen) ==
    IF fallbacks = <<>> THEN <<>>
    ELSE IF Head(fallbacks) \in seen THEN UniqueFallbacks(Tail(fallbacks), seen)
    ELSE <<Head(fallbacks)>> \o UniqueFallbacks(Tail(fallbacks), seen \cup {Head(fallbacks)})

getServerFallbackConfigs(language, command) ==
    UniqueFallbacks(Fallbacks(language), {command})

\* attempts = [config, ...getServerFallbackConfigs(language, config)]
Attempts(language) ==
    <<ConfigCommand(language)>>
        \o getServerFallbackConfigs(language, ConfigCommand(language))

NumAttempts(language) == Len(Attempts(language))

NoDoc ==
    [bufferId |-> "none", uri |-> <<>>, serverLanguage |-> "none",
     languageId |-> "none", content |-> 0, version |-> 0, opened |-> FALSE,
     openPending |-> FALSE, root |-> 0, openedOn |-> {}]

\* A document object nothing refers to any more (its id is not used again).
RetiredDoc == [NoDoc EXCEPT !.bufferId = "retired"]

\* An entry of initializingClients.  pc is where the ensureClient body waits:
\* "stopExisting" (498), "initialize" (556), "stopFailed" (568), or "settling"
\* when it has returned `client` (0 for null) and its promise is being
\* resolved.  bodies counts the async bodies of ensureClient that run for the
\* language; tried is history: the attempts this acquisition has abandoned,
\* each with what failed ("spawn" or "initialize") and its client (0: none).
NoAcquisition ==
    [pc |-> "none", client |-> 0, attempt |-> 0, root |-> 0, bodies |-> 0,
     tried |-> <<>>]

SpawnFailures(n) == [i \in 1..n |-> [outcome |-> "spawn", client |-> 0]]

\* new Map(): no key.
NoMappings == [u \in {} |-> {}]

InitRuntime ==
    /\ started = TRUE
    /\ previousState = [buffers |-> [b \in Buffers |-> NoBuffer], rootPath |-> 1]
    /\ documents = [b \in Buffers |-> 0]
    /\ docs = [d \in DocIds |-> NoDoc]
    /\ uriToBufferIds = NoMappings
    /\ changeTimers = {}
    /\ debounce = [b \in Buffers |-> 0]
    /\ initializingClients = [l \in Configs |-> NoAcquisition]
    /\ initializedLanguages = {}
    /\ diagnosticsBoundLanguages = {}
    /\ activeLanguages = <<>>
    /\ tasks = <<>>
    /\ restarts = <<>>

resolveServerLanguage(bufferLanguage) ==
    IF bufferLanguage \in Configs THEN bufferLanguage
    ELSE IF bufferLanguage \in DOMAIN SERVER_LANGUAGE_ALIASES
            /\ SERVER_LANGUAGE_ALIASES[bufferLanguage] \in Configs
         THEN SERVER_LANGUAGE_ALIASES[bufferLanguage]
         ELSE "none"

\* getDocumentMetadata: ok = FALSE stands for null.
getDocumentMetadata(buffer) ==
    IF buffer.filePath = "none" \/ buffer.language = "none"
       \/ resolveServerLanguage(buffer.language) = "none"
    THEN [ok |-> FALSE, uri |-> <<>>, serverLanguage |-> "none", languageId |-> "none"]
    ELSE [ok |-> TRUE, uri |-> Uri(buffer.filePath),
          serverLanguage |-> resolveServerLanguage(buffer.language),
          languageId |-> buffer.language]

RECURSIVE processStateTransition(_, _, _)

\* Mutant of StoreListener: internalDispatchInProgress is not tested.
StoreListenerIgnoresFlag(s, internalDispatchInProgress) ==
    processStateTransition([s EXCEPT !.previousState = StoreState(s)],
                           s.previousState, StoreState(s))

\* The store listener of start(): nextState is the store's state; when the
\* runtime is not started and during an internal dispatch only previousState
\* is refreshed.
StoreListener(s, internalDispatchInProgress) ==
    IF ~s.started \/ internalDispatchInProgress
    THEN [s EXCEPT !.previousState = StoreState(s)]
    ELSE processStateTransition([s EXCEPT !.previousState = StoreState(s)],
                                s.previousState, StoreState(s))

\* dispatchInternal: store.dispatch reduces the action (the diagnostics map
\* is the store's own; buffers and root are not touched) and calls the
\* listener with internalDispatchInProgress set; then previousState is
\* refreshed.
dispatchInternal(s, type, b) ==
    LET notified == StoreListener(
                        [s EXCEPT !.dispatched =
                            Append(@, [type |-> type, bufferId |-> b,
                                       sentBefore |-> Len(s.sent)])],
                        TRUE)
    IN [notified EXCEPT !.previousState = StoreState(notified)]

\* client.didOpen / didChange / didSave / didClose for document object d on
\* client c: a notification, dropped by the client when it is closed.
Notify(s, c, method, d) ==
    [s EXCEPT !.clients[c] =
                    [SendNotification(@, method) EXCEPT
                        !.openedUris = IF method = "didOpen"
                                       THEN @ \cup {s.docs[d].uri} ELSE @],
              !.docs[d].openedOn = IF method = "didOpen" THEN @ \cup {c} ELSE @,
              !.sent = Append(@, [method |-> method, client |-> c, doc |-> d,
                                  bufferId |-> s.docs[d].bufferId,
                                  uri |-> s.docs[d].uri,
                                  version |-> s.docs[d].version,
                                  content |-> s.docs[d].content,
                                  known |-> c \in s.docs[d].openedOn,
                                  uriOpened |-> s.docs[d].uri \in s.clients[c].openedUris,
                                  languageId |-> s.docs[d].languageId,
                                  tracked |-> s.docs[d].bufferId \in Buffers
                                              /\ s.documents[s.docs[d].bufferId] = d,
                                  root |-> s.docs[d].root,
                                  clientRoot |-> s.clients[c].rootUri,
                                  origin |-> d, originRoot |-> s.docs[d].root,
                                  dropped |-> s.clients[c].closed])]

\* Notify from the open callback or the task that was started for document
\* object o (history: origin says whose operation made the call).
NotifyFrom(s, c, method, d, o) ==
    LET s1 == Notify(s, c, method, d) IN
    [s1 EXCEPT !.sent[Len(s1.sent)].origin = o,
               !.sent[Len(s1.sent)].originRoot = s.docs[o].root]

\* uriToBufferIds.get(uri), the empty set standing for undefined.
MappedBufferIds(s, uri) ==
    IF uri \in DOMAIN s.uriToBufferIds THEN s.uriToBufferIds[uri] ELSE {}

addUriBufferMapping(s, uri, b) ==
    IF uri \in DOMAIN s.uriToBufferIds
    THEN [s EXCEPT !.uriToBufferIds[uri] = @ \cup {b}]
    ELSE [s EXCEPT !.uriToBufferIds =
                [u \in DOMAIN @ \cup {uri} |-> IF u = uri THEN {b} ELSE @[u]]]

\* Mutant of removeUriBufferMapping: the key is kept when its set has
\* become empty.
removeUriBufferMappingKeepsKey(s, uri, b) ==
    IF uri \notin DOMAIN s.uriToBufferIds THEN s
    ELSE [s EXCEPT !.uriToBufferIds[uri] = @ \ {b}]

removeUriBufferMapping(s, uri, b) ==
    IF uri \notin DOMAIN s.uriToBufferIds THEN s
    ELSE IF s.uriToBufferIds[uri] \ {b} = {}
    THEN [s EXCEPT !.uriToBufferIds = [u \in DOMAIN @ \ {uri} |-> @[u]]]
    ELSE [s EXCEPT !.uriToBufferIds[uri] = @ \ {b}]

\* clearTimeout of the timer changeTimers holds for b, if any.
ClearMappedTimer(s, b) ==
    IF b \in s.changeTimers THEN [s EXCEPT !.debounce[b] = @ - 1] ELSE s

\* Mutant of closeDocument: the debounce timer is left armed.
closeDocumentKeepsTimer(s, b) ==
    LET d == s.documents[b]
    IN IF d = 0 THEN s
       ELSE dispatchInternal(
                [removeUriBufferMapping(s, s.docs[d].uri, b) EXCEPT
                    !.documents[b] = 0,
                    !.tasks = Append(@, [kind |-> "close", doc |-> d, bufferId |-> b])],
                "CLEAR_BUFFER_DIAGNOSTICS", b)

\* closeDocument: the closeTask suspends on tracked.openPromise and is run by
\* the drain; CLEAR_BUFFER_DIAGNOSTICS is dispatched synchronously.
closeDocument(s, b) ==
    LET s1 == [ClearMappedTimer(s, b) EXCEPT !.changeTimers = @ \ {b}]
        d == s1.documents[b]
    IN IF d = 0 THEN s1
       ELSE dispatchInternal(
                [removeUriBufferMapping(s1, s1.docs[d].uri, b) EXCEPT
                    !.documents[b] = 0,
                    !.tasks = Append(@, [kind |-> "close", doc |-> d, bufferId |-> b])],
                "CLEAR_BUFFER_DIAGNOSTICS", b)

\* StdioLspAdapter.stopServer up to its suspension: the registry entry is
\* deleted synchronously, then client.shutdown() starts.
stopServer(s, language) ==
    LET c == s.registry[language] IN
    IF c = 0 THEN s
    ELSE [s EXCEPT !.registry[language] = 0, !.clients[c] = Shutdown(@)]

\* The promise of stopServer for client c (0: no client was registered) has
\* resolved.
Stopped(s, c) == c = 0 \/ s.clients[c].shutdownPc = "done"

\* Mutant of removeClientIfCurrent: the exit of one server empties the map.
removeClientsOfEveryLanguage(s, language, c) ==
    [s EXCEPT !.registry = [l \in Configs |-> 0]]

\* StdioLspAdapter.removeClientIfCurrent
removeClientIfCurrent(s, language, c) ==
    IF s.registry[language] = c THEN [s EXCEPT !.registry[language] = 0] ELSE s

\* Set.add on activeLanguages (insertion order is kept).
AddActive(s, language) ==
    IF \E i \in DOMAIN s.activeLanguages : s.activeLanguages[i] = language
    THEN s
    ELSE [s EXCEPT !.activeLanguages = Append(@, language)]

FreeClients(s) == {c \in ClientIds : ~s.clients[c].spawned}

FreeDocs(s) == {d \in DocIds : s.docs[d].bufferId = "none"}

bindDiagnostics(s, language, c) ==
    IF language \in s.diagnosticsBoundLanguages THEN s
    ELSE [s EXCEPT !.clients[c].diagnosticsCallbacks = @ + 1,
                   !.diagnosticsBoundLanguages = @ \cup {language}]

\* Mutant of startServer: a process is spawned and registered whether or not
\* the language has a client.
startServerAlwaysSpawns(s, language, command) ==
    LET c == CHOOSE x \in FreeClients(s) : \A y \in FreeClients(s) : x <= y
    IN [s EXCEPT !.clients[c] = [NewClient(language) EXCEPT !.command = command],
                 !.registry[language] = c]

\* StdioLspAdapter.startServer: the registered client of the language is
\* returned as it is; otherwise a process is spawned and its client
\* registered.  The client returned is the one registered afterwards.
startServer(s, language, command) ==
    LET c == CHOOSE x \in FreeClients(s) : \A y \in FreeClients(s) : x <= y
    IN IF s.registry[language] # 0 THEN s
       ELSE [s EXCEPT !.clients[c] = [NewClient(language) EXCEPT !.command = command],
                      !.registry[language] = c]

\* StdioLspAdapter.getClient (0: null).
getClient(s, language) == s.registry[language]

Settling(s, language, c) ==
    [s EXCEPT !.initializingClients[language] =
                [@ EXCEPT !.pc = "settling", !.client = c]]

\* startServerWithFallback from attempt number `from` up to its next
\* suspension.  s.plan[language] is the number of attempts, from `from` on,
\* whose spawn throws; the next attempt spawns (or reuses the registered
\* client), binds diagnostics and starts initialize.  s.blocked marks a step
\* outside the bounds or a plan that names attempts that do not exist.
startServerWithFallback(s, language, from) ==
    LET index == from + s.plan[language]
        s0 == [s EXCEPT !.planUsed = @ \cup {language},
                        !.initializingClients[language].tried =
                            @ \o SpawnFailures(s.plan[language])]
        existing == s0.registry[language]
        c == IF existing # 0 THEN existing
             ELSE CHOOSE x \in FreeClients(s0) : \A y \in FreeClients(s0) : x <= y
        s1 == startServer(s0, language, Attempts(language)[index])
        s2 == bindDiagnostics(s1, language, c)
    IN IF index > NumAttempts(language) + 1 THEN [s0 EXCEPT !.blocked = TRUE]
       ELSE IF index = NumAttempts(language) + 1 THEN Settling(s0, language, 0)
       ELSE IF existing = 0 /\ FreeClients(s0) = {} THEN [s0 EXCEPT !.blocked = TRUE]
       ELSE [s2 EXCEPT !.clients[c] = InitializeWith(@, s2.initializingClients[language].root),
                       !.initializingClients[language] =
                           [@ EXCEPT !.pc = "initialize", !.client = c,
                                     !.attempt = index]]

\* The body of an ensureClient in flight continues if what it awaits has
\* settled.
AcquisitionAdvance(s, language) ==
    LET a == s.initializingClients[language]
        cleared == [s EXCEPT !.diagnosticsBoundLanguages = @ \ {language},
                             !.initializedLanguages = @ \ {language}]
        registered == cleared.registry[language]
        stopping == stopServer(
                        [cleared EXCEPT !.initializingClients[language].tried =
                            Append(@, [outcome |-> "initialize", client |-> a.client])],
                        language)
    IN CASE a.pc = "initialize" /\ s.clients[a.client].initPc = "returned" ->
                Settling(AddActive([s EXCEPT !.initializedLanguages = @ \cup {language}],
                                   language),
                         language, a.client)
         [] a.pc = "initialize" /\ s.clients[a.client].initPc = "threw" ->
                IF Stopped(stopping, registered)
                THEN startServerWithFallback(stopping, language, a.attempt + 1)
                ELSE [stopping EXCEPT !.initializingClients[language] =
                        [@ EXCEPT !.pc = "stopFailed", !.client = registered]]
         [] a.pc = "stopFailed" /\ Stopped(s, a.client) ->
                startServerWithFallback(s, language, a.attempt + 1)
         [] a.pc = "stopExisting" /\ Stopped(s, a.client) ->
                startServerWithFallback(cleared, language, 1)
         [] OTHER -> s

\* The async body of ensureClient up to its first suspension; the promise is
\* then stored in initializingClients.
ensureClientBody(s, language, root) ==
    LET existingClient == s.registry[language]
        fresh == [s EXCEPT !.initializingClients[language] =
                    [NoAcquisition EXCEPT !.pc = "starting", !.root = root,
                                          !.bodies = s.initializingClients[language].bodies + 1]]
    IN IF existingClient # 0 /\ language \in s.initializedLanguages
       THEN Settling(AddActive(bindDiagnostics(fresh, language, existingClient), language),
                     language, existingClient)
       ELSE IF existingClient # 0
       THEN AcquisitionAdvance(
                [stopServer(fresh, language) EXCEPT
                    !.initializingClients[language] =
                        [@ EXCEPT !.pc = "stopExisting", !.client = existingClient]],
                language)
       ELSE startServerWithFallback(fresh, language, 1)

\* Mutant of ensureClient: the in-flight promise is not looked up, so every
\* call runs the body.
ensureClientUnshared(s, language, root) == ensureClientBody(s, language, root)

\* ensureClient: a call made while an acquisition of the language is in
\* flight returns its promise.
ensureClient(s, language, root) ==
    IF s.initializingClients[language].pc # "none" THEN s
    ELSE ensureClientBody(s, language, root)

openDocument(s, b, buffer, metadata, root) ==
    LET d == CHOOSE x \in FreeDocs(s) : \A y \in FreeDocs(s) : x <= y
        document == [NoDoc EXCEPT !.bufferId = b, !.uri = metadata.uri,
                                  !.serverLanguage = metadata.serverLanguage,
                                  !.languageId = metadata.languageId,
                                  !.content = buffer.content, !.version = 1,
                                  !.openPending = TRUE, !.root = root]
        s1 == addUriBufferMapping([s EXCEPT !.docs[d] = document, !.documents[b] = d],
                                  metadata.uri, b)
    IN IF FreeDocs(s) = {} THEN [s EXCEPT !.blocked = TRUE]
       ELSE ensureClient(s1, metadata.serverLanguage, root)

\* scheduleDidChange: clear the mapped timer, arm a new one, map it.
scheduleDidChange(s, b) ==
    [ClearMappedTimer(s, b) EXCEPT !.debounce[b] = @ + 1,
                                   !.changeTimers = @ \cup {b}]

\* sendDidChange / sendDidSave up to `await tracked.openPromise`.
sendDidChange(s, b) ==
    IF s.documents[b] = 0 THEN s
    ELSE [s EXCEPT !.tasks = Append(@, [kind |-> "didChange", doc |-> s.documents[b],
                                        bufferId |-> b])]

\* Mutant of sendDidSave: the save waits for the debounce timer.
sendDidSaveDebounced(s, b) == scheduleDidChange(s, b)

sendDidSave(s, b) ==
    IF s.documents[b] = 0 THEN s
    ELSE [s EXCEPT !.tasks = Append(@, [kind |-> "didSave", doc |-> s.documents[b],
                                        bufferId |-> b])]

\* syncBuffer(nextBuffer, previousBuffer, workspaceRoot); a previousBuffer
\* that is not open stands for null.
syncBuffer(s, b, nextBuffer, previousBuffer, root) ==
    LET metadata == getDocumentMetadata(nextBuffer)
        tracked == s.documents[b]
        documentChanged ==
            \/ tracked = 0
            \/ s.docs[tracked].uri # metadata.uri
            \/ s.docs[tracked].serverLanguage # metadata.serverLanguage
            \/ s.docs[tracked].languageId # metadata.languageId
        hadPrevious == previousBuffer.status = "open"
        Saved(s2) == IF hadPrevious /\ previousBuffer.isDirty /\ ~nextBuffer.isDirty
                     THEN sendDidSave(s2, b) ELSE s2
        Changed(s1) == Saved(IF hadPrevious /\ previousBuffer.content # nextBuffer.content
                             THEN scheduleDidChange(s1, b) ELSE s1)
    IN IF ~metadata.ok
       THEN (IF tracked # 0 THEN closeDocument(s, b) ELSE s)
       ELSE Changed(IF documentChanged
                    THEN openDocument(IF tracked # 0 THEN closeDocument(s, b) ELSE s,
                                      b, nextBuffer, metadata, root)
                    ELSE [s EXCEPT !.docs[tracked].content = nextBuffer.content])

\* Mutant of RunTask: the closeTask does not test tracked.opened.
RunTaskIgnoresOpened(s, t) ==
    LET current == IF t.kind = "close" THEN t.doc ELSE s.documents[t.bufferId]
        c == s.registry[s.docs[current].serverLanguage]
    IN IF current = 0 \/ (t.kind # "close" /\ ~s.docs[current].opened) THEN s
       ELSE IF c = 0 \/ ~s.clients[c].isReady THEN s
       ELSE IF t.kind = "didChange"
            THEN Notify([s EXCEPT !.docs[current].version = @ + 1], c, "didChange", current)
            ELSE IF t.kind = "didSave" THEN Notify(s, c, "didSave", current)
            ELSE Notify(s, c, "didClose", current)

\* The rest of a closeTask / sendDidChange / sendDidSave task, after
\* `await tracked.openPromise`.
RunTask(s, t) ==
    LET current == IF t.kind = "close" THEN t.doc ELSE s.documents[t.bufferId]
        c == s.registry[s.docs[current].serverLanguage]
    IN IF current = 0 \/ ~s.docs[current].opened THEN s
       ELSE IF c = 0 \/ ~s.clients[c].isReady THEN s
       ELSE IF t.kind = "didChange"
            THEN NotifyFrom([s EXCEPT !.docs[current].version = @ + 1], c, "didChange",
                            current, t.doc)
            ELSE IF t.kind = "didSave" THEN NotifyFrom(s, c, "didSave", current, t.doc)
            ELSE Notify(s, c, "didClose", current)

\* Tasks whose openPromise has resolved continue, in the order they suspended.
RECURSIVE RunTasks(_, _, _)
RunTasks(s, queue, kept) ==
    IF queue = <<>> THEN [s EXCEPT !.tasks = kept]
    ELSE IF s.docs[Head(queue).doc].openPending
         THEN RunTasks(s, Tail(queue), Append(kept, Head(queue)))
         ELSE RunTasks(RunTask(s, Head(queue)), Tail(queue), kept)

RunReadyTasks(s) == RunTasks(s, s.tasks, <<>>)

\* Mutant of OpenCallback: the staleness test on documents.get(buffer.id) is
\* missing and the document object of the call is used.
OpenCallbackUnchecked(s, d, c) ==
    IF c = 0 THEN s
    ELSE [Notify(s, c, "didOpen", d) EXCEPT !.docs[d].opened = TRUE]

\* The .then callback of openDocument for document object d, with the client
\* ensureClient resolved to (0 for null).
OpenCallback(s, d, c) ==
    LET current == s.documents[s.docs[d].bufferId] IN
    IF c = 0 THEN s
    ELSE IF current = 0 \/ s.docs[current].uri # s.docs[d].uri THEN s
    ELSE [NotifyFrom(s, c, "didOpen", current, d) EXCEPT !.docs[current].opened = TRUE]

RECURSIVE OpenCallbacks(_, _, _)
OpenCallbacks(s, pending, c) ==
    IF pending = {} THEN s
    ELSE LET d == CHOOSE x \in pending : \A y \in pending : x <= y IN
         OpenCallbacks(OpenCallback(s, d, c), pending \ {d}, c)

\* The promise of ensureClient(language) resolves: the finally handler deletes
\* it from initializingClients, the open callbacks run in registration order,
\* then the tasks that waited on those openPromises.
SettleAcquisition(s, language) ==
    LET a == s.initializingClients[language]
        pending == {d \in DocIds : s.docs[d].openPending
                                   /\ s.docs[d].serverLanguage = language}
        s1 == OpenCallbacks([s EXCEPT !.initializingClients[language] = NoAcquisition,
                                      !.acquired = Append(@,
                                            [language |-> language, client |-> a.client,
                                             attempt |-> a.attempt, tried |-> a.tried])],
                            pending, a.client)
    IN RunReadyTasks([s1 EXCEPT !.docs = [d \in DocIds |->
                        IF d \in pending THEN [s1.docs[d] EXCEPT !.openPending = FALSE]
                        ELSE s1.docs[d]]])

RECURSIVE AdvanceAcquisitions(_, _)
AdvanceAcquisitions(s, languages) ==
    IF languages = <<>> THEN s
    ELSE LET Settled(s1) == IF s1.initializingClients[Head(languages)].pc = "settling"
                            THEN SettleAcquisition(s1, Head(languages)) ELSE s1
         IN AdvanceAcquisitions(Settled(AcquisitionAdvance(s, Head(languages))),
                                Tail(languages))

\* syncAllBuffers(state, workspaceRoot)
RECURSIVE syncAllBuffers(_, _, _)
syncAllBuffers(s, state, order) ==
    IF order = <<>> THEN s
    ELSE syncAllBuffers(
            IF Has(state, Head(order))
            THEN syncBuffer(s, Head(order), state.buffers[Head(order)], NoBuffer,
                            state.rootPath)
            ELSE s,
            state, Tail(order))

\* One stopAllServers() in flight continues: it awaits the stopServer of
\* `client`; then it stops the next language.  After the last one the
\* finally callback of handleWorkspaceChange runs with the state captured
\* when the root changed (final = "sync"), or stop() clears its maps and
\* sets (final = "clear").
RECURSIVE AdvanceRestart(_, _)
AdvanceRestart(s, i) ==
    LET r == s.restarts[i]
        language == Head(r.langs)
    IN IF ~Stopped(s, r.client) THEN s
       ELSE IF r.langs = <<>> /\ r.final = "clear"
       THEN [s EXCEPT !.restarts[i].done = TRUE,
                      !.documents = [b \in Buffers |-> 0],
                      !.uriToBufferIds = NoMappings,
                      !.initializedLanguages = {},
                      !.diagnosticsBoundLanguages = {},
                      !.activeLanguages = <<>>]
       ELSE IF r.langs = <<>>
       THEN syncAllBuffers(
                dispatchInternal([s EXCEPT !.restarts[i].done = TRUE],
                                 "CLEAR_ALL_DIAGNOSTICS", "none"),
                r.state, BufferOrder)
       ELSE AdvanceRestart(
                [stopServer(s, language) EXCEPT
                    !.restarts[i] = [r EXCEPT !.langs = Tail(r.langs),
                                              !.client = s.registry[language]]],
                i)

RECURSIVE AdvanceRestarts(_, _)
AdvanceRestarts(s, i) ==
    IF i > Len(s.restarts)
    THEN [s EXCEPT !.restarts = SelectSeq(s.restarts, LAMBDA r : ~r.done)]
    ELSE AdvanceRestarts(AdvanceRestart(s, i), i + 1)

\* stopAllServers up to its first suspension: the three sets are cleared and
\* stopServer of the first active language is called.
stopAllServers(s, state) ==
    LET languages == s.activeLanguages
        s1 == [s EXCEPT !.activeLanguages = <<>>, !.initializedLanguages = {},
                        !.diagnosticsBoundLanguages = {}]
        first == IF languages = <<>> THEN 0 ELSE s1.registry[Head(languages)]
        s2 == IF languages = <<>> THEN s1 ELSE stopServer(s1, Head(languages))
    IN [s2 EXCEPT !.restarts = Append(@,
            [langs |-> IF languages = <<>> THEN <<>> ELSE Tail(languages),
             client |-> first, state |-> state, final |-> "sync",
             done |-> FALSE])]

RECURSIVE CloseDocuments(_, _)
CloseDocuments(s, order) ==
    IF order = <<>> THEN s
    ELSE CloseDocuments(
            IF s.documents[Head(order)] # 0 THEN closeDocument(s, Head(order)) ELSE s,
            Tail(order))

handleWorkspaceChange(s, nextState) ==
    LET s1 == [s EXCEPT !.debounce = [b \in Buffers |->
                            IF b \in s.changeTimers THEN s.debounce[b] - 1
                            ELSE s.debounce[b]],
                        !.changeTimers = {}]
        s2 == CloseDocuments(s1, BufferOrder)
    IN stopAllServers([s2 EXCEPT !.documents = [b \in Buffers |-> 0],
                                 !.uriToBufferIds = NoMappings],
                      nextState)

\* stop(): the runtime is marked stopped and the store listener
\* unsubscribed, the timers are cancelled, every tracked document is closed
\* and stopAllServers is awaited; its continuation clears the maps and sets.
stop(s) ==
    IF ~s.started THEN s
    ELSE LET s1 == [s EXCEPT !.started = FALSE,
                             !.debounce = [b \in Buffers |->
                                 IF b \in s.changeTimers THEN s.debounce[b] - 1
                                 ELSE s.debounce[b]],
                             !.changeTimers = {}]
             s2 == stopAllServers(CloseDocuments(s1, BufferOrder), s.previousState)
         IN [s2 EXCEPT !.restarts[Len(s2.restarts)].final = "clear"]

RECURSIVE CloseRemoved(_, _, _, _)
CloseRemoved(s, before, after, order) ==
    IF order = <<>> THEN s
    ELSE CloseRemoved(
            IF Has(before, Head(order)) /\ ~Has(after, Head(order))
            THEN closeDocument(s, Head(order)) ELSE s,
            before, after, Tail(order))

RECURSIVE SyncBuffers(_, _, _, _)
SyncBuffers(s, before, after, order) ==
    IF order = <<>> THEN s
    ELSE SyncBuffers(
            IF Has(after, Head(order))
            THEN syncBuffer(s, Head(order), after.buffers[Head(order)],
                            before.buffers[Head(order)], after.rootPath)
            ELSE s,
            before, after, Tail(order))

processStateTransition(s, before, after) ==
    IF before.rootPath # after.rootPath
    THEN handleWorkspaceChange(s, after)
    ELSE SyncBuffers(CloseRemoved(s, before, after, BufferOrder),
                     before, after, BufferOrder)

\* The microtasks of a step: tasks on resolved promises, stopAllServers calls
\* whose await has settled, ensureClient bodies whose await has settled.
Drain(s) ==
    AdvanceAcquisitions(
        RunReadyTasks(AdvanceRestarts(RunReadyTasks(s), 1)),
        LanguageOrder)

\* ------------------------------------------------------ Spec: the runtime
\* The started runtime with the store, the registry and the servers.  The
\* writes a step queues complete before the next step.
Plans == {p \in [Configs -> 0..NumAttempts("python")] :
            \A l \in Configs : p[l] <= NumAttempts(l)}

ZeroPlan == [l \in Configs |-> 0]

\* The plans that differ only where the step consults them.
Fitting(used) == {p \in Plans : \A l \in Configs \ used : p[l] = 0}

St(plan) ==
    [buffers |-> buffers, rootPath |-> rootPath,
     userActions |-> userActions, started |-> started,
     previousState |-> previousState, documents |-> documents, docs |-> docs,
     uriToBufferIds |-> uriToBufferIds, changeTimers |-> changeTimers,
     debounce |-> debounce, initializingClients |-> initializingClients,
     initializedLanguages |-> initializedLanguages,
     diagnosticsBoundLanguages |-> diagnosticsBoundLanguages,
     activeLanguages |-> activeLanguages, tasks |-> tasks, restarts |-> restarts,
     registry |-> registry, clients |-> clients,
     sent |-> <<>>, dispatched |-> <<>>, acquired |-> <<>>,
     plan |-> plan, planUsed |-> {}, blocked |-> FALSE]

\* A closed client that neither the registry nor a suspended stopServer or
\* ensureClient refers to is garbage: nothing can reach it again.
Referenced(s, c) ==
    \/ \E l \in Configs : s.registry[l] = c
    \/ \E l \in Configs : s.initializingClients[l].pc # "none"
                          /\ s.initializingClients[l].client = c
    \/ \E i \in DOMAIN s.restarts : s.restarts[i].client = c

Collected(language) ==
    [NoClientObject EXCEPT !.spawned = TRUE, !.language = language,
                           !.closed = TRUE, !.exited = TRUE]

\* The state a step leaves: written messages have left the queue, request
\* history is kept only in SpecClient.
AfterStep(s, c) ==
    IF s.clients[c].closed /\ ~Referenced(s, c)
    THEN Collected(s.clients[c].language)
    ELSE [s.clients[c] EXCEPT !.writeQueue = <<>>, !.issued = <<>>, !.settled = <<>>,
                              !.sendOrder = <<>>, !.written = <<>>,
                              !.returned = <<>>]

\* A document object that is neither tracked nor awaited by an open callback
\* or a task is garbage.
DocAfterStep(s, d) ==
    IF /\ s.docs[d].bufferId \in Buffers
       /\ s.documents[s.docs[d].bufferId] # d
       /\ ~s.docs[d].openPending
    THEN RetiredDoc
    ELSE s.docs[d]

Apply(s) ==
    /\ ~s.blocked
    /\ buffers' = s.buffers
    /\ rootPath' = s.rootPath
    /\ userActions' = s.userActions
    /\ started' = s.started
    /\ previousState' = s.previousState
    /\ documents' = s.documents
    /\ docs' = [d \in DocIds |-> DocAfterStep(s, d)]
    /\ uriToBufferIds' = s.uriToBufferIds
    /\ changeTimers' = s.changeTimers
    /\ debounce' = s.debounce
    /\ initializingClients' = s.initializingClients
    /\ initializedLanguages' = s.initializedLanguages
    /\ diagnosticsBoundLanguages' = s.diagnosticsBoundLanguages
    /\ activeLanguages' = s.activeLanguages
    /\ tasks' = s.tasks
    /\ restarts' = s.restarts
    /\ registry' = s.registry
    /\ clients' = [c \in ClientIds |-> AfterStep(s, c)]
    /\ sent' = s.sent
    /\ dispatched' = s.dispatched
    /\ acquired' = s.acquired
    /\ event' = event
    /\ UNCHANGED framerVars

\* A step whose handler is Run[plan] under the plan of spawn outcomes: the
\* plans tried are those that differ only where the handler consults them.
Step(Run) ==
    \E plan \in Fitting(Run[ZeroPlan].planUsed) : Apply(Run[plan])

Init ==
    /\ InitStore /\ InitRuntime
    /\ registry = [l \in Configs |-> 0]
    /\ clients = [c \in ClientIds |-> NoClientObject]
    /\ wire = NoWire /\ framer = NewFramer
    /\ event = [type |-> "none", id |-> 0]
    /\ sent = <<>>
    /\ dispatched = <<>>
    /\ acquired = <<>>

\* An action of the user reaches the store: the store listener runs, not
\* during an internal dispatch, and then the microtasks.  stop() has
\* unsubscribed the listener of a runtime that is not started.
Listener(s0, nextBuffers, nextRoot) ==
    LET s1 == [s0 EXCEPT !.buffers = nextBuffers, !.rootPath = nextRoot,
                         !.userActions = @ + 1]
    IN Drain(IF s1.started THEN StoreListener(s1, FALSE) ELSE s1)

OpenFileStep(b, path, language, plan) ==
    Listener(St(plan),
             [buffers EXCEPT ![b] = [NoBuffer EXCEPT !.status = "open",
                                                     !.filePath = path,
                                                     !.language = language]],
             rootPath)

\* The user opens a file in a new buffer (buffer ids are allocated in order).
OpenFile(b, path, language) ==
    /\ userActions < MaxUserActions
    /\ buffers[b].status = "unopened"
    /\ \A i, j \in DOMAIN BufferOrder :
         i < j /\ BufferOrder[j] = b => buffers[BufferOrder[i]].status # "unopened"
    /\ Step([plan \in Plans |-> OpenFileStep(b, path, language, plan)])

EditBufferStep(b, plan) ==
    Listener(St(plan), [buffers EXCEPT ![b].content = @ + 1, ![b].isDirty = TRUE],
             rootPath)

\* The user edits the buffer.
EditBuffer(b) ==
    /\ userActions < MaxUserActions
    /\ buffers[b].status = "open"
    /\ buffers[b].content < MaxEdits
    /\ Step([plan \in Plans |-> EditBufferStep(b, plan)])

SaveBufferStep(b, plan) ==
    Listener(St(plan), [buffers EXCEPT ![b].isDirty = FALSE], rootPath)

\* The user saves the buffer.
SaveBuffer(b) ==
    /\ userActions < MaxUserActions
    /\ buffers[b].status = "open"
    /\ buffers[b].isDirty
    /\ Step([plan \in Plans |-> SaveBufferStep(b, plan)])

CloseTabStep(b, plan) ==
    Listener(St(plan), [buffers EXCEPT ![b] = ClosedBuffer], rootPath)

\* The user closes the tab: the buffer leaves the store.
CloseTab(b) ==
    /\ userActions < MaxUserActions
    /\ buffers[b].status = "open"
    /\ Step([plan \in Plans |-> CloseTabStep(b, plan)])

SetWorkspaceRootStep(root, plan) ==
    Listener(St(plan), buffers, root)

\* The user opens another folder.
SetWorkspaceRoot(root) ==
    /\ userActions < MaxUserActions
    /\ root # rootPath
    /\ Step([plan \in Plans |-> SetWorkspaceRootStep(root, plan)])

TimerFiresStep(b, plan) ==
    Drain(sendDidChange([St(plan) EXCEPT !.debounce[b] = @ - 1,
                                         !.changeTimers = @ \ {b}],
                        b))

\* The debounce timer of buffer b fires: changeTimers.delete, sendDidChange.
TimerFires(b) ==
    /\ debounce[b] > 0
    /\ Step([plan \in Plans |-> TimerFiresStep(b, plan)])

\* An event on client c, then the microtasks of everything that awaited it.
\* When the process has exited the adapter's handler on process.exited runs
\* removeClientIfCurrent.
ClientStepResult(c, after, plan) ==
    LET s == [St(plan) EXCEPT !.clients[c] = after] IN
    Drain(IF after.exited THEN removeClientIfCurrent(s, after.language, c) ELSE s)

ClientStep(c, after) ==
    Step([plan \in Plans |-> ClientStepResult(c, after, plan)])

ClientResponse(c, id, isError) ==
    /\ id \in PendingIds(clients[c])
    /\ ClientStep(c, ResponseArrived(clients[c], id, isError))

\* The server answers request id and closes its stdout at once.
ClientResponseThenEnd(c, id, isError) ==
    /\ id \in PendingIds(clients[c])
    /\ ClientStep(c, ResponseThenStdoutEnded(clients[c], id, isError))

ClientTimeout(c, id) ==
    /\ id \in clients[c].timeouts
    /\ ClientStep(c, TimeoutFired(clients[c], id))

\* The server process exits.
ClientExit(c) ==
    /\ clients[c].spawned
    /\ ~clients[c].exited
    /\ ClientStep(c, ProcessExited(clients[c]))

\* stdout ends or a read or write fails.
ClientTransportEnd(c) ==
    /\ clients[c].spawned
    /\ ~clients[c].closed
    /\ ClientStep(c, StdoutEnded(clients[c]))

ClientRaceDelay(c) ==
    /\ clients[c].shutdownPc = "race"
    /\ ClientStep(c, ShutdownDelayElapsed(clients[c]))

\* One diagnostics callback of bindDiagnostics for uri.
RECURSIVE DiagnosticsCallback(_, _, _)
DiagnosticsCallback(s, uri, order) ==
    IF order = <<>> THEN s
    ELSE DiagnosticsCallback(
            IF Head(order) \in MappedBufferIds(s, uri)
            THEN dispatchInternal(s, "SET_BUFFER_DIAGNOSTICS", Head(order)) ELSE s,
            uri, Tail(order))

RECURSIVE handlePublishDiagnostics(_, _, _)
handlePublishDiagnostics(s, uri, callbacks) ==
    IF callbacks = 0 THEN s
    ELSE handlePublishDiagnostics(DiagnosticsCallback(s, uri, BufferOrder), uri,
                                  callbacks - 1)

\* The server of client c publishes diagnostics for uri.
PublishDiagnostics(c, uri) ==
    /\ clients[c].spawned
    /\ ~clients[c].closed
    /\ Apply(handlePublishDiagnostics(St(ZeroPlan), uri, clients[c].diagnosticsCallbacks))

Next ==
    \/ \E b \in Buffers, path \in Paths : OpenFile(b, path, DetectedLanguage(path))
    \/ \E b \in Buffers : EditBuffer(b)
    \/ \E b \in Buffers : SaveBuffer(b)
    \/ \E b \in Buffers : CloseTab(b)
    \/ \E root \in 1..MaxRoots : SetWorkspaceRoot(root)
    \/ \E b \in Buffers : TimerFires(b)
    \/ \E c \in ClientIds, isError \in BOOLEAN :
            \E id \in PendingIds(clients[c]) : ClientResponse(c, id, isError)
    \/ \E c \in ClientIds, isError \in BOOLEAN :
            \E id \in PendingIds(clients[c]) : ClientResponseThenEnd(c, id, isError)
    \/ \E c \in ClientIds : \E id \in clients[c].timeouts : ClientTimeout(c, id)
    \/ \E c \in ClientIds : ClientExit(c)
    \/ \E c \in ClientIds : ClientTransportEnd(c)
    \/ \E c \in ClientIds : ClientRaceDelay(c)
    \/ \E c \in ClientIds, uri \in Uris : PublishDiagnostics(c, uri)

Spec == Init /\ [][Next]_vars

\* ------------------------------------- SpecTwoFiles: two typescript files
\* The editor with two typescript files and one workspace root: the user
\* opens, edits, saves and closes them while the servers answer or exit.
NextTwoFiles ==
    \/ \E b \in Buffers, path \in TypescriptPaths :
            OpenFile(b, path, DetectedLanguage(path))
    \/ \E b \in Buffers : EditBuffer(b)
    \/ \E b \in Buffers : SaveBuffer(b)
    \/ \E b \in Buffers : CloseTab(b)
    \/ \E b \in Buffers : TimerFires(b)
    \/ \E c \in ClientIds, isError \in BOOLEAN :
            \E id \in PendingIds(clients[c]) : ClientResponse(c, id, isError)
    \/ \E c \in ClientIds : ClientExit(c)

SpecTwoFiles == Init /\ [][NextTwoFiles]_vars

\* ------------------------------------------- SpecLive: one buffer, timers
\* The editor with one tab: the user opens, edits and saves a file while its
\* servers answer, fail or exit.  A timer of setTimeout fires unless it is
\* cleared: an armed didChange debounce does not stay armed for ever.
LiveBuffer == Head(BufferOrder)

\* The debounce timer of b leaves the armed state.  It is enabled exactly
\* when a timer of b is armed, so weak fairness on it says that b's timer is
\* not armed for ever: its callback (TimerFires) or a clearTimeout ends it.
DebounceElapses(b) ==
    /\ debounce[b] > 0
    /\ debounce' = [debounce EXCEPT ![b] = @ - 1]
    /\ UNCHANGED <<storeVars, started, previousState, documents, docs, uriToBufferIds,
                   changeTimers, initializingClients, initializedLanguages,
                   diagnosticsBoundLanguages, activeLanguages, tasks, restarts,
                   registry, clients, framerVars, event, sent, dispatched, acquired>>

NextLive ==
    \/ \E path \in Paths : OpenFile(LiveBuffer, path, DetectedLanguage(path))
    \/ EditBuffer(LiveBuffer)
    \/ SaveBuffer(LiveBuffer)
    \/ TimerFires(LiveBuffer)
    \/ \E c \in ClientIds, isError \in BOOLEAN :
            \E id \in PendingIds(clients[c]) : ClientResponse(c, id, isError)
    \/ \E c \in ClientIds : \E id \in clients[c].timeouts : ClientTimeout(c, id)
    \/ \E c \in ClientIds : ClientExit(c)
    \/ \E c \in ClientIds : ClientRaceDelay(c)

SpecLive ==
    /\ Init /\ [][NextLive]_vars
    /\ WF_vars(DebounceElapses(LiveBuffer))

\* ------------------------------------ SpecIdentity: a buffer's identity
\* One buffer whose file path and language the user sets and changes (save
\* as, a language picked by hand): a path or none, a language with a
\* configured server, an alias of one, one without a server, or none.
IdentityPaths == {"/w/a.ts", "/w/c.ts", "none"}

IdentityLanguages == {"typescript", "typescriptreact", "markdown", "none"}

ChangeIdentityStep(b, path, language, plan) ==
    Listener(St(plan), [buffers EXCEPT ![b].filePath = path, ![b].language = language],
             rootPath)

\* The store replaces the buffer's filePath and language.
ChangeIdentity(b, path, language) ==
    /\ userActions < MaxUserActions
    /\ buffers[b].status = "open"
    /\ <<path, language>> # <<buffers[b].filePath, buffers[b].language>>
    /\ Step([plan \in Plans |-> ChangeIdentityStep(b, path, language, plan)])

NextIdentity ==
    \/ \E path \in IdentityPaths, language \in IdentityLanguages :
            OpenFile(LiveBuffer, path, language)
    \/ \E path \in IdentityPaths, language \in IdentityLanguages :
            ChangeIdentity(LiveBuffer, path, language)
    \/ EditBuffer(LiveBuffer)
    \/ \E root \in 1..MaxRoots : SetWorkspaceRoot(root)
    \/ TimerFires(LiveBuffer)
    \/ \E c \in ClientIds, isError \in BOOLEAN :
            \E id \in PendingIds(clients[c]) : ClientResponse(c, id, isError)
    \/ \E c \in ClientIds : ClientExit(c)

SpecIdentity == Init /\ [][NextIdentity]_vars

\* ------------------------------------------ SpecIndex: the uri index
\* The editor with two tabs that can show the same file: the user opens and
\* closes files, the store replaces a buffer's path, the workspace root
\* changes and the runtime is stopped.  stop() is called once, when no
\* stopAllServers of a root change is in flight, so that no ensureClient is
\* called after initializingClients has been cleared.
IndexPaths == {"/w/a.ts", "/w/c.ts"}

StopRuntime ==
    /\ started
    /\ restarts = <<>>
    /\ Step([plan \in Plans |-> Drain(stop(St(plan)))])

NextIndex ==
    \/ \E b \in Buffers, path \in IndexPaths : OpenFile(b, path, "typescript")
    \/ \E b \in Buffers, path \in IndexPaths :
            ChangeIdentity(b, path, "typescript")
    \/ \E b \in Buffers : CloseTab(b)
    \/ \E root \in 1..MaxRoots : SetWorkspaceRoot(root)
    \/ StopRuntime
    \/ \E c \in ClientIds, isError \in BOOLEAN :
            \E id \in PendingIds(clients[c]) : ClientResponse(c, id, isError)
    \/ \E c \in ClientIds : ClientExit(c)

SpecIndex == Init /\ [][NextIndex]_vars

\* ------------------------------------------------ SpecClient: one client
\* One StdioLspClient driven by arbitrary callers and an arbitrary server.
Subject == CHOOSE c \in ClientIds : \A d \in ClientIds : c <= d

Event(type, id) == [type |-> type, id |-> id]

InitClient ==
    /\ InitStore /\ InitRuntime
    /\ registry = [l \in Configs |-> 0]
    /\ clients = [c \in ClientIds |-> IF c = Subject THEN NewClient("typescript") ELSE NoClientObject]
    /\ wire = NoWire /\ framer = NewFramer
    /\ event = Event("none", 0)
    /\ sent = <<>>
    /\ dispatched = <<>>
    /\ acquired = <<>>

SetSubject(cl, ev) ==
    /\ clients' = [clients EXCEPT ![Subject] = cl]
    /\ event' = ev
    /\ UNCHANGED <<storeVars, runtimeVars, registry, framerVars, sent, dispatched, acquired>>

CallInitialize ==
    /\ clients[Subject].initPc # "awaiting"
    /\ clients[Subject].nextRequestId <= MaxRequests
    /\ SetSubject(Initialize(clients[Subject]), Event("initialize", 0))

CallRequest ==
    /\ clients[Subject].nextRequestId <= MaxRequests
    /\ \E method \in {"textDocument/completion", "textDocument/hover"} :
          SetSubject(SendRequest(clients[Subject], method),
                     Event("request", IF clients[Subject].closed THEN 0 ELSE clients[Subject].nextRequestId))

CallShutdown ==
    /\ clients[Subject].shutdownPc \in {"idle", "done"}
    /\ clients[Subject].nextRequestId <= MaxRequests
    /\ SetSubject(Shutdown(clients[Subject]), Event("shutdown", 0))

ServerResponds ==
    \E id \in 1..(MaxRequests + 1), isError \in BOOLEAN :
        /\ ~clients[Subject].exited
        /\ SetSubject(ResponseArrived(clients[Subject], id, isError),
                      Event(IF isError THEN "errorResponse" ELSE "response", id))

\* The server answers request id and closes its stdout at once.
ServerRespondsAndEnds ==
    \E id \in PendingIds(clients[Subject]), isError \in BOOLEAN :
        SetSubject(ResponseThenStdoutEnded(clients[Subject], id, isError),
                   Event("responseAndEof", id))

RequestTimesOut ==
    \E id \in clients[Subject].timeouts :
        SetSubject(TimeoutFired(clients[Subject], id), Event("timeout", id))

ServerExits ==
    /\ ~clients[Subject].exited
    /\ SetSubject(ProcessExited(clients[Subject]), Event("exit", 0))

StdoutEnds ==
    /\ ~clients[Subject].closed
    /\ SetSubject(StdoutEnded(clients[Subject]), Event("eof", 0))

RaceDelayElapses ==
    /\ clients[Subject].shutdownPc = "race"
    /\ SetSubject(ShutdownDelayElapsed(clients[Subject]), Event("delay", 0))

WriteStarts ==
    /\ clients[Subject].writeQueue # <<>>
    /\ ~clients[Subject].writing
    /\ SetSubject(WriteStarted(clients[Subject]), Event("writeStart", 0))

WriteNext ==
    /\ clients[Subject].writing
    /\ SetSubject(WriteDone(clients[Subject]), Event("write", 0))

WriteFails ==
    /\ clients[Subject].writing
    /\ SetSubject(WriteFailed(clients[Subject]), Event("writeFailure", 0))

\* The notifications and error responses sent so far.
Unrequested(cl) ==
    Cardinality({i \in DOMAIN cl.sendOrder : cl.sendOrder[i].kind # "request"})

\* A caller sends a notification (didOpen, didChange, ...).
CallNotification ==
    /\ Unrequested(clients[Subject]) < MaxSends
    /\ SetSubject(SendNotification(clients[Subject], "textDocument/didChange"),
                  Event("notification", 0))

\* The server sends a request of its own; the client answers with an error.
ServerRequests ==
    /\ Unrequested(clients[Subject]) < MaxSends
    /\ ~clients[Subject].closed
    /\ SetSubject(ServerRequestArrived(clients[Subject], 1), Event("serverRequest", 1))

NextClient ==
    \/ CallInitialize
    \/ CallRequest
    \/ CallShutdown
    \/ ServerResponds
    \/ ServerRespondsAndEnds
    \/ RequestTimesOut
    \/ ServerExits
    \/ StdoutEnds
    \/ RaceDelayElapses
    \/ WriteStarts
    \/ WriteNext
    \/ WriteFails
    \/ CallNotification
    \/ ServerRequests

SpecClient == InitClient /\ [][NextClient]_vars

\* ------------------------------------------------ shutdown() of a client
\* One client with callers that send requests and call shutdown(), and a
\* server that may answer, exit, close its stdout, or do nothing at all.
\* The timers are the only things that are sure to happen: the timeout of a
\* pending request fires unless it is cleared, and the delay(500) of
\* shutdown()'s race elapses.
NextShutdown ==
    \/ CallRequest
    \/ CallShutdown
    \/ ServerResponds
    \/ RequestTimesOut
    \/ ServerExits
    \/ StdoutEnds
    \/ RaceDelayElapses
    \/ WriteStarts
    \/ WriteNext
    \/ WriteFails

SpecShutdown ==
    /\ InitClient /\ [][NextShutdown]_vars
    /\ WF_vars(RequestTimesOut)
    /\ WF_vars(RaceDelayElapses)

\* ------------------------------------------------- StdioLspAdapter alone
\* The adapter driven by arbitrary callers: any language is started,
\* stopped or looked up at any time, servers exit on their own, and the
\* shutdown() calls in flight proceed.
AdapterState == [registry |-> registry, clients |-> clients]

InitAdapter ==
    /\ InitStore /\ InitRuntime
    /\ registry = [l \in Configs |-> 0]
    /\ clients = [c \in ClientIds |-> NoClientObject]
    /\ wire = NoWire /\ framer = NewFramer
    /\ event = Event("none", 0)
    /\ sent = <<>>
    /\ dispatched = <<>>
    /\ acquired = <<>>

AdapterStep(s, ev) ==
    /\ registry' = s.registry
    /\ clients' = s.clients
    /\ event' = ev
    /\ UNCHANGED <<storeVars, runtimeVars, framerVars, sent, dispatched, acquired>>

\* The event names the client the call returned.
CallStartServer ==
    \E language \in Configs :
        /\ registry[language] # 0 \/ FreeClients(AdapterState) # {}
        /\ LET s == startServer(AdapterState, language, ConfigCommand(language))
           IN AdapterStep(s, Event("startServer", getClient(s, language)))

\* The event names the client that is shut down (0: none).
CallStopServer ==
    \E language \in Configs :
        AdapterStep(stopServer(AdapterState, language),
                    Event("stopServer", registry[language]))

CallGetClient ==
    \E language \in Configs :
        AdapterStep(AdapterState, Event("getClient", getClient(AdapterState, language)))

\* childProcess.exited resolves: the client's own handler runs, then the
\* adapter's.
AdapterProcessExits ==
    \E c \in ClientIds :
        /\ clients[c].spawned /\ ~clients[c].exited
        /\ AdapterStep(removeClientIfCurrent(
                          [AdapterState EXCEPT !.clients[c] = ProcessExited(@)],
                          clients[c].language, c),
                       Event("exit", c))

\* The shutdown request of a stopped client is answered or times out.
AdapterShutdownSettles ==
    \E c \in ClientIds, answered \in BOOLEAN :
        \E id \in clients[c].timeouts :
            AdapterStep([AdapterState EXCEPT !.clients[c] =
                            IF answered THEN ResponseArrived(@, id, FALSE)
                            ELSE TimeoutFired(@, id)],
                        Event(IF answered THEN "response" ELSE "timeout", c))

AdapterRaceDelay ==
    \E c \in ClientIds :
        /\ clients[c].shutdownPc = "race"
        /\ AdapterStep([AdapterState EXCEPT !.clients[c] = ShutdownDelayElapsed(@)],
                       Event("delay", c))

NextAdapter ==
    \/ CallStartServer
    \/ CallStopServer
    \/ CallGetClient
    \/ AdapterProcessExits
    \/ AdapterShutdownSettles
    \/ AdapterRaceDelay

SpecAdapter == InitAdapter /\ [][NextAdapter]_vars

\* ------------------------------------------- dispatch of server messages
\* The messages a server can put on stdout, up to the fields handleMessage
\* reads.  The ids of server requests are numbers (1 or 2).
MessageIds == 1..MaxRequests

Methods == {NoMethod, "textDocument/publishDiagnostics", "workspace/configuration"}

IncomingMessages ==
    {Incoming(FALSE, FALSE, FALSE, 0, NoMethod, "none")}
    \cup {Incoming(TRUE, FALSE, FALSE, 0, method, body) :
              method \in Methods, body \in {"none", "result", "error"}}
    \cup {Incoming(TRUE, TRUE, TRUE, id, method, body) :
              id \in MessageIds, method \in Methods, body \in {"none", "result", "error"}}
    \cup {Incoming(TRUE, TRUE, FALSE, 0, method, body) :
              method \in {NoMethod, "textDocument/publishDiagnostics"},
              body \in {"none", "result", "error"}}

IsServerRequest(m) ==
    /\ m.isRecord
    /\ ~(m.hasId /\ m.hasResultOrError)
    /\ m.method \notin {NoMethod, "textDocument/publishDiagnostics"}
    /\ m.hasId

\* The server writes one message; stdout delivers it also after the client
\* closed (a write failure or a timeout closes the client while the server
\* still runs and its output is still being read).
ServerSends ==
    \E m \in IncomingMessages :
        /\ IsServerRequest(m) => Unrequested(clients[Subject]) < MaxSends
        /\ SetSubject(MessageArrived(clients[Subject], m),
                      [type |-> "message", id |-> m.id, message |-> m])

NextDispatch ==
    \/ CallRequest
    \/ ServerSends
    \/ WriteStarts
    \/ WriteFails

SpecDispatch == InitClient /\ [][NextDispatch]_vars

\* -------------------------------------------------------- claims C1 .. C6
\* The positions in `sent` (read in the state after a step) of the
\* notifications of `method` handed for document object d.
SentFor(log, method, d) ==
    {i \in DOMAIN log : log[i].method = method /\ log[i].doc = d}

\* A client for `language` is registered and ready.
ReadyClient(language) ==
    /\ registry[language] # 0
    /\ clients[registry[language]].isReady

Active(language) ==
    \E i \in DOMAIN activeLanguages : activeLanguages[i] = language

\* C1: at most one debounce timer is armed per buffer, and when the timer of
\* a buffer fires (its pending timer is consumed by a step that is not a user
\* action) whose document is opened on a ready client, exactly one
\* didChange is handed, carrying the buffer's latest content and the
\* document's previous version + 1.
C1_DebounceCoalesces ==
    /\ [](\A b \in Buffers : debounce[b] <= 1)
    /\ [][\A b \in Buffers :
            (/\ debounce'[b] < debounce[b]
             /\ userActions' = userActions
             /\ documents[b] # 0
             /\ docs[documents[b]].opened
             /\ ReadyClient(docs[documents[b]].serverLanguage))
            => /\ Cardinality(SentFor(sent', "didChange", documents[b])) = 1
               /\ Len(sent') = 1
               /\ sent'[1].content = buffers[b].content
               /\ sent'[1].version = docs[documents[b]].version + 1]_vars

\* C2: a didChange for a document is handed to a client only after the
\* didOpen of that document was handed to that client.
C2_NoChangeBeforeOpen ==
    \A i \in DOMAIN sent : sent[i].method = "didChange" => sent[i].known

\* C3 as stated: when a buffer leaves the store, its tracked document is
\* handed exactly one didClose if it is opened and none otherwise.
C3_RemovalClosesOpened ==
    [][\A b \in Buffers :
        (buffers[b].status = "open" /\ buffers'[b].status = "closed"
         /\ documents[b] # 0)
        => Cardinality(SentFor(sent', "didClose", documents[b])) =
             IF docs[documents[b]].opened THEN 1 ELSE 0]_vars

\* C3 amended: when a buffer leaves the store, its tracked document is handed
\* exactly one didClose if it is opened and a client of its server language is
\* registered and ready, and none otherwise; a didClose is handed only in the
\* step that stops tracking the document, and a didOpen only for a document
\* that is tracked, so a document removed while its open is in flight gets
\* neither.
C3_RemovalClosesOpenedOnReadyClient ==
    /\ [][\A b \in Buffers :
            (buffers[b].status = "open" /\ buffers'[b].status = "closed"
             /\ documents[b] # 0)
            => Cardinality(SentFor(sent', "didClose", documents[b])) =
                 IF /\ docs[documents[b]].opened
                    /\ ReadyClient(docs[documents[b]].serverLanguage)
                 THEN 1 ELSE 0]_vars
    /\ [][\A i \in DOMAIN sent' :
            /\ sent'[i].method = "didClose"
                 => /\ documents[sent'[i].bufferId] = sent'[i].doc
                    /\ documents'[sent'[i].bufferId] # sent'[i].doc
                    /\ docs[sent'[i].doc].opened
            /\ sent'[i].method = "didOpen"
                 => documents'[sent'[i].bufferId] = sent'[i].doc]_vars

\* C3 witness: a tab that was opened on a ready client has just been closed
\* and its didClose handed.
C3_Witness ==
    \E b \in Buffers :
        /\ buffers[b].status = "closed"
        /\ \E i \in DOMAIN sent : sent[i].method = "didClose" /\ sent[i].bufferId = b

\* C4: while a root change is being processed (its stopAllServers has not
\* finished and CLEAR_ALL_DIAGNOSTICS is not dispatched) no document is
\* tracked and no didOpen is handed.
C4_NothingOpensDuringRestart ==
    restarts # <<>> =>
        /\ \A b \in Buffers : documents[b] = 0
        /\ \A i \in DOMAIN sent : sent[i].method # "didOpen"

\* C5: the step that observes a root change hands a didClose for every
\* tracked document that is opened on a registered, ready client of an
\* active language.
C5_RootChangeClosesOpened ==
    [][rootPath' # rootPath =>
        \A b \in Buffers :
            (/\ documents[b] # 0
             /\ docs[documents[b]].opened
             /\ Active(docs[documents[b]].serverLanguage)
             /\ ReadyClient(docs[documents[b]].serverLanguage))
            => SentFor(sent', "didClose", documents[b]) # {}]_vars

\* The buffers for which a publishDiagnostics notification of client c for uri
\* dispatches SET_BUFFER_DIAGNOSTICS in the current state.
DiagnosedBuffers(c, uri) ==
    LET s == handlePublishDiagnostics(St(ZeroPlan), uri,
                                      clients[c].diagnosticsCallbacks)
    IN  {s.dispatched[i].bufferId : i \in DOMAIN s.dispatched}

\* C6: a publishDiagnostics notification that a running server sends for a
\* uri dispatches SET_BUFFER_DIAGNOSTICS for exactly the buffers whose tracked
\* document has that uri.
C6_DiagnosticsReachMappedBuffers ==
    \A c \in ClientIds, uri \in Uris :
        (clients[c].spawned /\ ~clients[c].closed)
        => DiagnosedBuffers(c, uri) =
             {b \in Buffers : documents[b] # 0 /\ docs[documents[b]].uri = uri}

\* ------------------------------------------------------- claims C7 .. C10
Spawned == {c \in ClientIds : clients[c].spawned}

\* C7: within one client the ids of the requests it issues are strictly
\* increasing in issue order, so no id is used for two requests.
C7_RequestIdsStrictlyIncreasing ==
    \A c \in Spawned :
        \A i, j \in DOMAIN clients[c].issued :
            i < j => clients[c].issued[i] < clients[c].issued[j]

\* C7 witness: a second request has been issued after the first one was
\* settled, and is still pending.
C7_Witness ==
    /\ Len(clients[Subject].issued) = 2
    /\ clients[Subject].settled # <<>>
    /\ PendingIds(clients[Subject]) = {2}

\* C8: a response whose id is not in the pending-request table changes
\* nothing in the client, and every issued request is settled exactly once:
\* never while it is pending, once when it has left the table.
C8_UnknownResponseIsNoOp ==
    /\ [](\A c \in Spawned : \A i \in DOMAIN clients[c].issued :
            SettleCount(clients[c], clients[c].issued[i]) =
                IF clients[c].issued[i] \in PendingIds(clients[c]) THEN 0 ELSE 1)
    /\ [][(/\ event'.type \in {"response", "errorResponse"}
           /\ event'.id \notin PendingIds(clients[Subject]))
          => clients' = clients]_vars

\* C8 witness: a response for an id that was never issued has just been
\* handled while other requests are pending.
C8_Witness ==
    /\ event.type = "response"
    /\ event.id >= clients[Subject].nextRequestId
    /\ clients[Subject].pendingRequests # {}
    /\ clients[Subject].settled # <<>>

\* C9: when the timeout of a pending request fires, that request is rejected
\* and its entry removed, every other entry stays, the client is not closed
\* and the process is not killed.
C9_TimeoutRejectsOnlyItsRequest ==
    [][event'.type = "timeout" =>
        LET id == event'.id
            before == clients[Subject]
            after == clients'[Subject]
        IN /\ id \in PendingIds(before)
           /\ PendingIds(after) = PendingIds(before) \ {id}
           /\ SettleCount(after, id) = 1
           /\ LastKind(after, id) = "reject"
           /\ ~before.closed /\ ~after.closed
           /\ after.kills = before.kills
           /\ after.nextRequestId = before.nextRequestId]_vars

\* C9 witness: a timeout has fired, another request is still pending and the
\* client is still open.
C9_Witness ==
    /\ event.type = "timeout"
    /\ clients[Subject].pendingRequests # {}
    /\ ~clients[Subject].closed
    /\ clients[Subject].kills = 0

\* C10: process exit and stdout EOF close the client, reject every request
\* pending at that moment, empty the table and kill the process; the
\* teardown runs at most once; a closed client has an empty table.
C10_CloseRejectsAllOnce ==
    /\ [](\A c \in Spawned :
            /\ clients[c].kills = (IF clients[c].closed THEN 1 ELSE 0)
            /\ clients[c].closed => clients[c].pendingRequests = {})
    /\ [][event'.type \in {"exit", "eof"} =>
            LET before == clients[Subject]
                after == clients'[Subject]
            IN /\ after.closed
               /\ after.pendingRequests = {}
               /\ after.kills = 1
               /\ \A id \in PendingIds(before) :
                     SettleCount(after, id) = 1 /\ LastKind(after, id) = "reject"]_vars

\* C10 witness: the process exited while two requests were pending; both
\* were rejected.
C10_Witness ==
    /\ event.type = "exit"
    /\ clients[Subject].closed
    /\ Len(clients[Subject].settled) = 2
    /\ \A i \in DOMAIN clients[Subject].settled : clients[Subject].settled[i].kind = "reject"

\* ------------------------------------------------ SpecFramer: one stdout
\* readStdout of one client: the server writes a well-formed stream, and
\* every reader.read() returns the next bytes, cut anywhere.
InitFramer ==
    /\ InitStore /\ InitRuntime
    /\ registry = [l \in Configs |-> 0]
    /\ clients = [c \in ClientIds |-> NoClientObject]
    /\ \E payloads \in Streams :
          wire = [payloads |-> payloads, bytes |-> EncodeAll(payloads),
                  fed |-> 0, cuts |-> {}]
    /\ framer = NewFramer
    /\ event = Event("none", 0)
    /\ sent = <<>>
    /\ dispatched = <<>>
    /\ acquired = <<>>

\* One iteration of the readStdout loop with a chunk of size bytes.
ReadChunk(size) ==
    /\ wire.fed + size <= Len(wire.bytes)
    /\ framer' = consumeChunk(framer, SubSeq(wire.bytes, wire.fed + 1, wire.fed + size))
    /\ wire' = [wire EXCEPT
                    !.fed = @ + size,
                    !.cuts = IF wire.fed + size < Len(wire.bytes)
                             THEN @ \cup {CutKind(wire.payloads, wire.fed + size)}
                             ELSE @]
    /\ UNCHANGED <<storeVars, runtimeVars, registry, clients, event, sent, dispatched, acquired>>

NextFramer == \E size \in 1..Len(wire.bytes) : ReadChunk(size)

SpecFramer == InitFramer /\ [][NextFramer]_vars

\* ------------------------------------------ normalization of diagnostics
\* A JSON value as far as the normalizers look at it: its typeof and, for a
\* number, the number; for a string, 0 for "" and another number for a
\* non-empty text.  Null is the null the normalizers return.
JsNumber(n) == [type |-> "number", value |-> n]

JsString(n) == [type |-> "string", value |-> n]

JsUndefined == [type |-> "undefined", value |-> 0]

Null == [null |-> TRUE]

\* Mutant of normalizePosition: the typeof tests are missing.
normalizePositionUnchecked(position) ==
    IF ~position.isRecord THEN Null
    ELSE [line |-> position.line, column |-> position.character, offset |-> JsNumber(0)]

normalizePosition(position) ==
    IF ~position.isRecord THEN Null
    ELSE IF position.line.type # "number" \/ position.character.type # "number" THEN Null
    ELSE [line |-> position.line, column |-> position.character, offset |-> JsNumber(0)]

normalizeRange(range) ==
    IF ~range.isRecord THEN Null
    ELSE IF normalizePosition(range.start) = Null \/ normalizePosition(range.end) = Null
    THEN Null
    ELSE [start |-> normalizePosition(range.start), end |-> normalizePosition(range.end)]

normalizeSeverity(severity) ==
    IF severity = JsNumber(1) THEN "error"
    ELSE IF severity = JsNumber(2) THEN "warning"
    ELSE IF severity = JsNumber(3) THEN "info"
    ELSE IF severity = JsNumber(4) THEN "hint"
    ELSE "error"

\* normalizeDiagnostic; source and code are copied through or left
\* undefined and are not part of the model.
normalizeDiagnostic(input) ==
    LET message == IF input.message.type = "string" THEN input.message ELSE JsString(0)
    IN IF ~input.isRecord THEN Null
       ELSE IF normalizeRange(input.range) = Null THEN Null
       ELSE IF message = JsString(0) THEN Null
       ELSE [range |-> normalizeRange(input.range),
             severity |-> normalizeSeverity(input.severity),
             message |-> message]

\* data.diagnostics.map(normalizeDiagnostic).filter(item => item !== null)
RECURSIVE normalizeDiagnostics(_)
normalizeDiagnostics(items) ==
    IF items = <<>> THEN <<>>
    ELSE (IF normalizeDiagnostic(Head(items)) = Null THEN <<>>
          ELSE <<normalizeDiagnostic(Head(items))>>)
            \o normalizeDiagnostics(Tail(items))

normalizePublishDiagnosticsParams(params) ==
    IF ~params.isRecord THEN Null
    ELSE IF params.uri.type # "string" \/ ~params.isArray THEN Null
    ELSE [uri |-> params.uri, diagnostics |-> normalizeDiagnostics(params.diagnostics)]

\* handlePublishDiagnostics of the client: the calls made on its callbacks,
\* one per registered callback, in order.
CallbackCalls(params, callbacks) ==
    IF normalizePublishDiagnosticsParams(params) = Null THEN <<>>
    ELSE [i \in 1..callbacks |-> normalizePublishDiagnosticsParams(params)]

\* The params a server can send, up to what the normalizers distinguish.
MaxDiagnostics == 2

NoPosition == [isRecord |-> FALSE, line |-> JsUndefined, character |-> JsUndefined]

GoodStart == [isRecord |-> TRUE, line |-> JsNumber(1), character |-> JsNumber(2)]

GoodEnd == [isRecord |-> TRUE, line |-> JsNumber(3), character |-> JsNumber(4)]

RangeInputs ==
    { [isRecord |-> TRUE, start |-> GoodStart, end |-> GoodEnd],
      [isRecord |-> TRUE, start |-> [GoodStart EXCEPT !.line = JsString(1)], end |-> GoodEnd],
      [isRecord |-> TRUE, start |-> GoodStart,
                          end |-> [GoodEnd EXCEPT !.character = JsUndefined]],
      [isRecord |-> TRUE, start |-> NoPosition, end |-> GoodEnd],
      [isRecord |-> FALSE, start |-> NoPosition, end |-> NoPosition] }

DiagnosticInputs ==
    { [isRecord |-> TRUE, range |-> range, message |-> message, severity |-> severity] :
        range \in RangeInputs,
        message \in {JsString(1), JsString(0), JsNumber(1)},
        severity \in {JsNumber(n) : n \in 1..5} \cup {JsUndefined} }
    \cup { [isRecord |-> FALSE,
            range |-> [isRecord |-> FALSE, start |-> NoPosition, end |-> NoPosition],
            message |-> JsUndefined, severity |-> JsUndefined] }

ParamsInputs ==
    { [isRecord |-> TRUE, uri |-> uri, isArray |-> TRUE, diagnostics |-> items] :
        uri \in {JsString(1), JsNumber(1)},
        items \in UNION {[1..n -> DiagnosticInputs] : n \in 0..MaxDiagnostics} }
    \cup { [isRecord |-> isRecord, uri |-> JsString(1), isArray |-> FALSE,
            diagnostics |-> <<>>] : isRecord \in BOOLEAN }

\* A client with one or two diagnostics callbacks; the server's next
\* publishDiagnostics carries params.
InitDiagnostics ==
    /\ InitStore /\ InitRuntime
    /\ registry = [l \in Configs |-> 0]
    /\ \E callbacks \in 1..2 :
          clients = [c \in ClientIds |->
                        IF c = Subject
                        THEN [NewClient("typescript") EXCEPT !.diagnosticsCallbacks = callbacks]
                        ELSE NoClientObject]
    /\ wire = NoWire /\ framer = NewFramer
    /\ \E params \in ParamsInputs :
          event = [type |-> "incoming", id |-> 0, params |-> params, calls |-> <<>>]
    /\ sent = <<>>
    /\ dispatched = <<>>
    /\ acquired = <<>>

\* handleMessage hands the params to handlePublishDiagnostics; calls lists
\* the (uri, diagnostics) the callbacks were called with.
PublishArrives ==
    /\ event.type = "incoming"
    /\ event' = [event EXCEPT
                    !.type = "published",
                    !.calls = CallbackCalls(event.params,
                                            clients[Subject].diagnosticsCallbacks)]
    /\ UNCHANGED <<storeVars, runtimeVars, registry, clients, framerVars, sent,
                   dispatched, acquired>>

SpecDiagnostics == InitDiagnostics /\ [][PublishArrives]_vars

\* ------------------------------------- stdout with malformed stretches
\* What a server, well behaved or not, puts on stdout: messages (the JSON
\* text of each, framed as encodeMessage frames it), header blocks without a
\* usable Content-Length, and frames whose complete body is not JSON.
MaxSegments == 3

Messages == {<<"1">>, <<"{", "}">>, <<"\"", "eacute", "\"">>}

HeaderBlocks ==
    { <<"CR", "LF", "CR", "LF">>,
      <<"X", ":", " ", "1", "CR", "LF", "CR", "LF">>,
      <<"C", ":", " ", "x", "CR", "LF", "CR", "LF">> }

BadBodies == { <<"{">>, <<"{", "CR", "LF", "CR", "LF">> }

Segments ==
    {[kind |-> "message", bytes |-> encodeMessage(m), value |-> m] : m \in Messages}
    \cup {[kind |-> "header", bytes |-> h, value |-> <<>>] : h \in HeaderBlocks}
    \cup {[kind |-> "body", bytes |-> encodeMessage(b), value |-> <<>>] : b \in BadBodies}

RECURSIVE BytesOf(_)
BytesOf(segments) ==
    IF segments = <<>> THEN <<>> ELSE Head(segments).bytes \o BytesOf(Tail(segments))

\* The messages of a stream, in order.
RECURSIVE MessagesOf(_)
MessagesOf(segments) ==
    IF segments = <<>> THEN <<>>
    ELSE (IF Head(segments).kind = "message" THEN <<Head(segments).value>> ELSE <<>>)
            \o MessagesOf(Tail(segments))

InitStream ==
    /\ InitStore /\ InitRuntime
    /\ registry = [l \in Configs |-> 0]
    /\ clients = [c \in ClientIds |-> NoClientObject]
    /\ \E n \in 1..MaxSegments : \E segments \in [1..n -> Segments] :
          wire = [payloads |-> MessagesOf(segments), bytes |-> BytesOf(segments),
                  fed |-> 0, cuts |-> {}, segments |-> segments]
    /\ framer = NewFramer
    /\ event = Event("none", 0)
    /\ sent = <<>>
    /\ dispatched = <<>>
    /\ acquired = <<>>

\* One iteration of the readStdout loop with a chunk of size bytes.
ReadBytes(size) ==
    /\ wire.fed + size <= Len(wire.bytes)
    /\ framer' = consumeChunk(framer, SubSeq(wire.bytes, wire.fed + 1, wire.fed + size))
    /\ wire' = [wire EXCEPT !.fed = @ + size]
    /\ UNCHANGED <<storeVars, runtimeVars, registry, clients, event, sent, dispatched, acquired>>

NextStream == \E size \in 1..Len(wire.bytes) : ReadBytes(size)

SpecStream == InitStream /\ [][NextStream]_vars

\* ------------------------------------------------------ claims C11 .. C20
\* C11: closed is terminal: a closed client is never ready.
C11_ClosedIsNeverReady ==
    \A c \in Spawned : clients[c].closed => ~clients[c].isReady

\* C12: initialize() on a ready (initialized, not closed) client enqueues no
\* message, allocates no request id and leaves it ready; initialize() on a
\* closed client enqueues no message, allocates no request id and leaves
\* isReady = false.
C12_InitializeIdempotent ==
    [][event'.type = "initialize" =>
        LET before == clients[Subject]
            after == clients'[Subject]
        IN /\ (before.isReady /\ ~before.closed) =>
                 /\ after.writeQueue = before.writeQueue
                 /\ after.nextRequestId = before.nextRequestId
                 /\ after.pendingRequests = before.pendingRequests
                 /\ after.isReady /\ ~after.closed
           /\ before.closed =>
                 /\ after.writeQueue = before.writeQueue
                 /\ after.nextRequestId = before.nextRequestId
                 /\ after.pendingRequests = before.pendingRequests
                 /\ ~after.isReady /\ after.closed]_vars

\* C12 witness: initialize() has just been called on a ready client and
\* returned without a second request.
C12_Witness ==
    /\ event.type = "initialize"
    /\ clients[Subject].isReady
    /\ clients[Subject].issued = <<1>>
    /\ clients[Subject].initPc = "returned"

\* C13: however the stream is cut into chunks, no message is handled before
\* its last body byte has been read, and once the whole stream has been
\* read the messages handled are, in order, those handled when the stream
\* arrives as one chunk.
C13_ChunkingInvariance ==
    /\ Len(framer.delivered)
          <= Cardinality({i \in DOMAIN wire.payloads :
                            EndOfMessage(wire.payloads, i) <= wire.fed})
    /\ wire.fed = Len(wire.bytes) /\ wire.payloads # <<>> =>
          framer.delivered = consumeChunk(NewFramer, wire.bytes).delivered

\* C13 witness: a stream of two messages was read in chunks cut inside a
\* header, inside a \r\n\r\n terminator and inside a body, and both
\* messages were handled.
C13_Witness ==
    /\ Len(wire.payloads) = 2
    /\ wire.fed = Len(wire.bytes)
    /\ {"header", "terminator", "body"} \subseteq wire.cuts
    /\ Len(framer.delivered) = 2

\* C14: the packets written to the server's stdin are, whole packet by
\* whole packet, the first packets of the send calls in the order of the
\* calls, also when calls are made while an earlier write awaits completion.
C14_WritesInSendOrder ==
    LET cl == clients[Subject] IN
    /\ Len(cl.written) <= Len(cl.sendOrder)
    /\ cl.written = SubSeq(cl.sendOrder, 1, Len(cl.written))

\* C14 witness: a request was written, and a notification has just been
\* sent while the write of a second request is awaiting completion.
C14_Witness ==
    LET cl == clients[Subject] IN
    /\ event.type = "notification"
    /\ cl.writing
    /\ Len(cl.written) = 1
    /\ cl.written[1].kind = "request"
    /\ Len(cl.writeQueue) = 2
    /\ cl.writeQueue[1].kind = "request"
    /\ cl.writeQueue[2].kind = "notification"

\* C15: at most one client that is not closed exists per language, also
\* while stopServer's graceful shutdown of a client is in progress.
C15_OneLiveClientPerLanguage ==
    \A language \in Configs :
        Cardinality({c \in Spawned : /\ clients[c].language = language
                                     /\ ~clients[c].closed}) <= 1

\* The clients ever spawned for a language.
SpawnedFor(cls, language) ==
    {c \in ClientIds : cls[c].spawned /\ cls[c].language = language}

\* The clients that were handed a didOpen for a document of the language in
\* the step that led to this state.
OpenedOn(log, language) ==
    {log[i].client : i \in {j \in DOMAIN log :
        log[j].method = "didOpen" /\ docs[log[j].doc].serverLanguage = language}}

C17_FallbackOrder ==
    /\ \A language \in Configs :
          /\ Attempts(language)[1] = ConfigCommand(language)
          /\ \A i, j \in DOMAIN Attempts(language) :
                Attempts(language)[i] = Attempts(language)[j] => i = j
          /\ Tail(Attempts(language))
                = SelectSeq(Fallbacks(language), LAMBDA f : f # ConfigCommand(language))
    /\ \A language \in Configs :
          LET a == initializingClients[language] IN
          a.pc = "initialize" =>
              /\ a.attempt = Len(a.tried) + 1
              /\ a.attempt <= NumAttempts(language)
              /\ clients[a.client].command = Attempts(language)[a.attempt]
              /\ \A i \in DOMAIN a.tried :
                    a.tried[i].outcome = "initialize" => clients[a.tried[i].client].closed
    /\ \A i \in DOMAIN acquired :
          LET r == acquired[i] IN
          /\ r.client = 0 => Len(r.tried) = NumAttempts(r.language)
          /\ (r.client # 0 /\ r.attempt > 0) =>
                /\ r.attempt = Len(r.tried) + 1
                /\ clients[r.client].initialized
                /\ clients[r.client].command = Attempts(r.language)[r.attempt]

\* The buffer is tracked, its document is not opened, its open callback has
\* run and no acquisition of its language is in flight: the acquisition it
\* waited for returned no client.
Unavailable(b) ==
    /\ documents[b] # 0
    /\ ~docs[documents[b]].opened
    /\ ~docs[documents[b]].openPending
    /\ initializingClients[docs[documents[b]].serverLanguage].pc = "none"

\* C18: when the content of a tracked buffer whose language could not be
\* started has changed (its didChange timer is armed), acquisition of the
\* language is attempted again: eventually an acquisition of the language
\* is in flight or has settled, or the buffer is no longer in that state.
C18_EditReattemptsAcquisition ==
    \A b \in Buffers :
        (Unavailable(b) /\ debounce[b] = 1)
            ~> \/ ~Unavailable(b)
               \/ \E i \in DOMAIN acquired :
                     acquired[i].language = docs[documents[b]].serverLanguage

\* C19: every client an acquisition returns has the diagnostics callback of
\* the runtime registered exactly once.
C19_DiagnosticsBoundOnce ==
    \A i \in DOMAIN acquired :
        acquired[i].client # 0 =>
            clients[acquired[i].client].diagnosticsCallbacks = 1

\* C20: a response with an error object for a pending id rejects that
\* request and removes its entry and its timeout; every other entry stays
\* pending with its timeout, no other request is settled, the client is not
\* closed and the process is not killed.
C20_ErrorResponseRejectsOnlyItsRequest ==
    [][(/\ event'.type = "errorResponse"
        /\ event'.id \in PendingIds(clients[Subject])) =>
        LET id == event'.id
            before == clients[Subject]
            after == clients'[Subject]
        IN /\ PendingIds(after) = PendingIds(before) \ {id}
           /\ after.timeouts = before.timeouts \ {id}
           /\ after.settled = Append(before.settled, [id |-> id, kind |-> "reject"])
           /\ ~before.closed /\ ~after.closed
           /\ after.kills = before.kills]_vars

\* C20 witness: an error response for request 1 has just been handled while
\* request 2 was pending; request 1 is rejected, request 2 is still pending
\* and the client is open.
C20_Witness ==
    /\ event.type = "errorResponse"
    /\ event.id = 1
    /\ clients[Subject].settled = <<[id |-> 1, kind |-> "reject"]>>
    /\ PendingIds(clients[Subject]) = {2}
    /\ ~clients[Subject].closed

\* ------------------------------------------------------------------ C21
ErrorResponses(cl) == SelectSeq(cl.sendOrder, LAMBDA x : x.kind = "error")

IsResponse(m) == m.isRecord /\ m.hasId /\ m.hasResultOrError

\* A message with an id and a result or error is treated as the response to
\* that id: a pending request with that id is settled once, and nothing is
\* answered to the server.
HandledAsResponse(before, after, m) ==
    /\ ErrorResponses(after) = ErrorResponses(before)
    /\ m.numericId /\ m.id \in PendingIds(before) =>
          /\ m.id \notin PendingIds(after)
          /\ SettleCount(after, m.id) = SettleCount(before, m.id) + 1
    /\ ~(m.numericId /\ m.id \in PendingIds(before)) => after = before

AnsweredMethodNotFound(before, after, m) ==
    after = [before EXCEPT !.sendOrder = Append(@, ErrorResponse(m.id, -32601)),
                           !.writeQueue = Append(@, ErrorResponse(m.id, -32601))]

\* The other three cases of the dispatch, common to both statements below.
DispatchOfTheRest(before, after, m) ==
    /\ IsResponse(m) => HandledAsResponse(before, after, m)
    /\ ~IsResponse(m) /\ m.isRecord /\ m.method # NoMethod /\ ~m.hasId => after = before
    /\ ~IsResponse(m) /\ m.isRecord /\ m.method = "textDocument/publishDiagnostics" =>
          after = before
    /\ ~IsResponse(m) /\ m.method = NoMethod => after = before

\* C21 as stated: every message with a method and an id that is neither a
\* response nor publishDiagnostics is answered with exactly one error
\* response carrying the same id and code -32601.  Violated: on a closed
\* client sendErrorResponse returns without sending.
C21_AsStated ==
    [][event'.type = "message" =>
         /\ DispatchOfTheRest(clients[Subject], clients'[Subject], event'.message)
         /\ IsServerRequest(event'.message) =>
               AnsweredMethodNotFound(clients[Subject], clients'[Subject], event'.message)]_vars

\* C21 (amended): a message with an id and a result or error is handled as a
\* response; any other message with a method and an id that is not
\* publishDiagnostics is answered, on a client that is not closed, with
\* exactly one error response carrying the same id and code -32601, and is
\* dropped on a closed client; a message with a method and no id gets no
\* response; a message with neither is ignored.
C21_DispatchOfServerMessages ==
    [][event'.type = "message" =>
         /\ DispatchOfTheRest(clients[Subject], clients'[Subject], event'.message)
         /\ IsServerRequest(event'.message) =>
               IF clients[Subject].closed
               THEN clients'[Subject] = clients[Subject]
               ELSE AnsweredMethodNotFound(clients[Subject], clients'[Subject],
                                           event'.message)]_vars

\* A server request with id 2 has just been answered with the error, while a
\* request of the client is still pending.
C21_Witness ==
    /\ event.type = "message"
    /\ IsServerRequest(event.message)
    /\ event.message.id = 2
    /\ PendingIds(clients[Subject]) # {}
    /\ ErrorResponses(clients[Subject]) = <<ErrorResponse(2, -32601)>>

\* ------------------------------------------------------------------ C22
\* The user's step turns the dirty flag of buffer b from true to false.
BecomesClean(b) ==
    /\ buffers[b].status = "open" /\ buffers[b].isDirty
    /\ buffers'[b].status = "open" /\ ~buffers'[b].isDirty

DidSavesFor(log, b) ==
    {i \in DOMAIN log : log[i].method = "didSave" /\ log[i].bufferId = b}

\* A didSave task of buffer b waits for the document's open to finish.
SavePending(b) ==
    \E i \in DOMAIN tasks : tasks[i].kind = "didSave" /\ tasks[i].bufferId = b

\* C22: when the dirty flag of a buffer whose document is opened and whose
\* language has a registered, ready client that is not closed goes from true
\* to false, exactly one didSave with the buffer's
\* current content is handed to that client in the same step, whatever the
\* debounce timer of the buffer; a step in which the flag does not go from
\* true to false hands no didSave, except the one a save made while the
\* document's open was in flight is still waiting to send.
C22_SaveSendsDidSaveAtOnce ==
    [][\A b \in Buffers :
         /\ (/\ BecomesClean(b)
             /\ documents[b] # 0
             /\ docs[documents[b]].opened
             /\ ReadyClient(docs[documents[b]].serverLanguage)
             /\ ~clients[registry[docs[documents[b]].serverLanguage]].closed)
            => /\ Cardinality(DidSavesFor(sent', b)) = 1
               /\ \A i \in DidSavesFor(sent', b) :
                     /\ sent'[i].content = buffers'[b].content
                     /\ sent'[i].client = registry[docs[documents[b]].serverLanguage]
                     /\ ~sent'[i].dropped
               /\ debounce'[b] = debounce[b]
         /\ ~BecomesClean(b) /\ ~SavePending(b) => DidSavesFor(sent', b) = {}
         /\ Cardinality(DidSavesFor(sent', b)) <= 1]_vars

\* A save has just sent its didSave while the debounce timer of an edit is
\* still running.
C22_Witness ==
    \E b \in Buffers :
        /\ \E i \in DidSavesFor(sent, b) : ~sent[i].dropped
        /\ debounce[b] > 0
        /\ ~buffers[b].isDirty

\* ------------------------------------------------------------------ C23
MethodOf(cl, id) == (CHOOSE p \in cl.pendingRequests : p.id = id).method

IsCompletionOrHover(cl, id) ==
    /\ id \in PendingIds(cl)
    /\ MethodOf(cl, id) \in {"textDocument/completion", "textDocument/hover"}

CallReturned(before, after, id, outcome) ==
    after.returned = Append(before.returned,
                            [id |-> id, method |-> MethodOf(before, id),
                             outcome |-> outcome])

\* C23 as stated: when the timeout of a completion or hover request fires,
\* the call returns a result (the empty one) to its caller.  Violated: the
\* rejection of sendRequest is not caught and the caller gets the error.
C23_AsStated ==
    [][event'.type = "timeout" /\ IsCompletionOrHover(clients[Subject], event'.id)
       => CallReturned(clients[Subject], clients'[Subject], event'.id, "result")]_vars

\* C23 (amended): when the timeout of a completion or hover request fires,
\* the caller of completion() / hover() receives the timeout error, not a
\* result.
C23_TimeoutFailsTheCaller ==
    [][event'.type = "timeout" /\ IsCompletionOrHover(clients[Subject], event'.id)
       => CallReturned(clients[Subject], clients'[Subject], event'.id, "error")]_vars

\* The timeout of a hover request has just fired and its caller got the
\* error, after an earlier completion call had returned a result.
C23_Witness ==
    /\ event.type = "timeout"
    /\ Len(clients[Subject].returned) = 2
    /\ clients[Subject].returned[1].outcome = "result"
    /\ clients[Subject].returned[1].method = "textDocument/completion"
    /\ clients[Subject].returned[2] =
          [id |-> event.id, method |-> "textDocument/hover", outcome |-> "error"]

\* ------------------------------------------------------------------ C24
\* The attempts the acquisition of `language` has abandoned, before and
\* after a step (an acquisition that settled in the step is in acquired').
TriedBefore(language) ==
    IF initializingClients[language].pc # "none"
    THEN initializingClients[language].tried ELSE <<>>

TriedAfter(language) ==
    IF initializingClients'[language].pc # "none"
    THEN initializingClients'[language].tried
    ELSE IF \E i \in DOMAIN acquired' : acquired'[i].language = language
         THEN acquired'[CHOOSE i \in DOMAIN acquired' :
                            acquired'[i].language = language].tried
         ELSE <<>>

\* In this step a spawn or an initialize of `language` failed, or a client
\* of the language was closed (its process exited, its stdout ended or a
\* write to it failed).
FailureOf(language) ==
    \/ Len(TriedAfter(language)) > Len(TriedBefore(language))
    \/ \E c \in SpawnedFor(clients, language) :
          ~clients[c].closed /\ clients'[c].closed

TrackedOf(language) ==
    {b \in Buffers : documents[b] # 0 /\ docs[documents[b]].serverLanguage = language}

\* Nothing the runtime keeps for `language` changes in this step (the
\* content snapshot of a document follows its buffer at every transition).
Untouched(language) ==
    /\ registry'[language] = registry[language]
    /\ registry[language] # 0 => clients'[registry[language]] = clients[registry[language]]
    /\ initializingClients'[language] = initializingClients[language]
    /\ \A b \in TrackedOf(language) :
          /\ documents'[b] = documents[b]
          /\ docs'[documents[b]].opened = docs[documents[b]].opened
          /\ docs'[documents[b]].version = docs[documents[b]].version
          /\ docs'[documents[b]].openPending = docs[documents[b]].openPending
          /\ debounce'[b] = debounce[b]
          /\ (b \in changeTimers') = (b \in changeTimers)
    /\ \A i \in DOMAIN sent' : docs[sent'[i].doc].serverLanguage # language

\* C24: a step in which a spawn, an initialize, a write or the process of
\* language A fails, and in which neither the user touches a buffer of
\* language B nor the workspace root changes or a restart is in progress,
\* leaves B as it was: its
\* registered client, its acquisition, its tracked documents (opened flag,
\* version) and their debounce timers; and whatever became of A, when the
\* debounce timer of an opened document of B fires while B's client is
\* ready and not closed, the didChange is written to that client.
C24_FailureIsolation ==
    /\ [][\A A, B \in Configs :
            (/\ A # B
             /\ FailureOf(A)
             /\ restarts = <<>> /\ restarts' = <<>> /\ rootPath' = rootPath
             /\ \A b \in TrackedOf(B) : buffers'[b] = buffers[b])
            => Untouched(B)]_vars
    /\ [][\A b \in Buffers :
            (/\ debounce'[b] < debounce[b]
             /\ userActions' = userActions
             /\ documents[b] # 0
             /\ docs[documents[b]].opened
             /\ ReadyClient(docs[documents[b]].serverLanguage)
             /\ ~clients[registry[docs[documents[b]].serverLanguage]].closed)
            => \E i \in SentFor(sent', "didChange", documents[b]) :
                  /\ sent'[i].client = registry[docs[documents[b]].serverLanguage]
                  /\ ~sent'[i].dropped]_vars

\* The python server has just been lost while a typescript document is
\* opened on its ready client with its debounce timer armed.
C24_Witness ==
    \E b \in Buffers :
        /\ documents[b] # 0
        /\ docs[documents[b]].serverLanguage = "typescript"
        /\ docs[documents[b]].opened
        /\ debounce[b] > 0
        /\ ReadyClient("typescript")
        /\ ~clients[registry["typescript"]].closed
        /\ registry["python"] = 0
        /\ \E c \in SpawnedFor(clients, "python") : clients[c].closed

\* ------------------------------------------------------------------ C25
\* C25: every didChange, didSave and didClose handed to a client for a URI
\* comes after a didOpen for that URI was handed to the same client.
C25_OpenPrecedesOnSameClient ==
    \A i \in DOMAIN sent :
        sent[i].method \in {"didChange", "didSave", "didClose"} => sent[i].uriOpened

\* ------------------------------------------------------------------ C26
\* C26: a document's opened flag becomes true only in a step in which a
\* didOpen for the document is written to the queue of a client that is not
\* closed (a didOpen handed to a closed client is dropped).
C26_OpenedOnlyIfTransmitted ==
    [][\A d \in DocIds :
         ~docs[d].opened /\ docs'[d].opened
         => \E i \in SentFor(sent', "didOpen", d) : ~sent'[i].dropped]_vars

\* ------------------------------------------------------------------ C27
\* The version counter of document object d before a step (1 when the
\* document is created in the step).
VersionBefore(d) == IF docs[d].bufferId = "none" THEN 1 ELSE docs[d].version

\* The didChange notifications of d in the log that were written to the
\* queue of a client (one handed to a closed client is dropped).
ChangesWritten(log, d) ==
    {i \in SentFor(log, "didChange", d) : ~log[i].dropped}

\* C27: every didOpen carries version 1, the k-th didChange of a document
\* carries the version of the previous one plus one, and the document's
\* counter grows by exactly the number of didChange notifications that were
\* written to a client: a change that is dropped leaves it as it is.
C27_VersionsAreConsecutive ==
    [][\A d \in DocIds :
         /\ \A i \in SentFor(sent', "didOpen", d) : sent'[i].version = 1
         /\ \A i \in SentFor(sent', "didChange", d) :
               sent'[i].version =
                   VersionBefore(d)
                   + Cardinality({j \in SentFor(sent', "didChange", d) : j <= i})
         /\ docs'[d].bufferId \in Buffers =>
               docs'[d].version =
                   VersionBefore(d) + Cardinality(ChangesWritten(sent', d))]_vars

\* ------------------------------------------------------------------ C28
\* C28: a didChange handed for a document comes from an edit made under the
\* root the document was created for, and a didOpen (with opened = true)
\* from the open operation started under that root: nothing that was in
\* flight before a root change acts on a document created after it.
C28_RootChangeCancelsInFlight ==
    \A i \in DOMAIN sent :
        sent[i].method \in {"didOpen", "didChange"} => sent[i].originRoot = sent[i].root

\* ------------------------------------------------------------------ C29
\* C29: every didOpen of a document goes to a client whose initialize
\* request carried the workspace root the document was created for: after a
\* root change no client initialized for the previous root receives the
\* didOpen of a document of the new root.
C29_DidOpenGoesToClientOfItsRoot ==
    \A i \in DOMAIN sent :
        sent[i].method = "didOpen" => sent[i].clientRoot = sent[i].root

\* ------------------------------------------------------------------ C30
\* The buffer is in the editor state and has a file path and a language
\* with a configured server.
Eligible(b) == buffers[b].status = "open" /\ getDocumentMetadata(buffers[b]).ok

\* C30: when no restart is in flight (every observed transition has been
\* processed, the finally callback of each root change included), the
\* tracked documents are exactly the eligible buffers of the editor state
\* and each content snapshot is its buffer's content.
C30_TrackedMatchesEditorState ==
    restarts = <<>> =>
        \A b \in Buffers :
            IF Eligible(b)
            THEN documents[b] # 0 /\ docs[documents[b]].content = buffers[b].content
            ELSE documents[b] = 0

\* ------------------------------------------------------------------ C31
\* The document tracked for buffer b stops being tracked in this step.
Closes(b) == documents[b] # 0 /\ documents'[b] # documents[b]

\* C31: the step that closes a tracked document, whether its open is in
\* flight or not, leaves no debounce timer armed for its buffer and
\* dispatches CLEAR_BUFFER_DIAGNOSTICS for the buffer before the didClose of
\* the document, if any, is handed to a client; every armed debounce timer
\* belongs to a buffer with a tracked document; and a didChange is handed
\* only for a document that is tracked at that moment.
C31_CloseCancelsTimerAndClearsDiagnostics ==
    /\ [][\A b \in Buffers : Closes(b) =>
            /\ debounce'[b] = 0 /\ b \notin changeTimers'
            /\ \E j \in DOMAIN dispatched' :
                  /\ dispatched'[j].type = "CLEAR_BUFFER_DIAGNOSTICS"
                  /\ dispatched'[j].bufferId = b
                  /\ \A i \in SentFor(sent', "didClose", documents[b]) :
                        i > dispatched'[j].sentBefore]_vars
    /\ [](\A b \in Buffers : debounce[b] > 0 \/ b \in changeTimers => documents[b] # 0)
    /\ [](\A i \in DOMAIN sent : sent[i].method = "didChange" => sent[i].tracked)

\* A tab whose document was opened has just been closed: its diagnostics
\* were cleared and then its didClose was handed.
C31_Witness ==
    \E b \in Buffers :
        /\ buffers[b].status = "closed"
        /\ documents[b] = 0 /\ debounce[b] = 0
        /\ \E j \in DOMAIN dispatched, i \in DOMAIN sent :
              /\ dispatched[j].type = "CLEAR_BUFFER_DIAGNOSTICS"
              /\ dispatched[j].bufferId = b
              /\ sent[i].method = "didClose" /\ sent[i].bufferId = b
              /\ i > dispatched[j].sentBefore

\* ------------------------------------------------------------------ C32
\* C32: a failed write on an open client closes it (closed, not ready, every
\* pending request rejected and the table empty); on a closed client no write is
\* begun, so once no write is in flight nothing more is written and the
\* queued packets are skipped; a notification sent on a closed client is not
\* enqueued; a request on a closed client fails at once: no id is allocated,
\* no pending entry or timeout is created and nothing is enqueued.
C32_ClosedClientWritesNothing ==
    /\ [][event'.type = "writeFailure" /\ ~clients[Subject].closed =>
            /\ clients'[Subject].closed /\ ~clients'[Subject].isReady
            /\ clients'[Subject].pendingRequests = {}
            /\ clients'[Subject].timeouts = {}
            /\ \A id \in PendingIds(clients[Subject]) :
                  \E i \in DOMAIN clients'[Subject].settled :
                     /\ i > Len(clients[Subject].settled)
                     /\ clients'[Subject].settled[i] = [id |-> id, kind |-> "reject"]]_vars
    /\ [][clients[Subject].closed =>
            /\ clients'[Subject].closed
            /\ clients'[Subject].writing => clients[Subject].writing
            /\ ~clients[Subject].writing =>
                  clients'[Subject].written = clients[Subject].written
            /\ event'.type = "writeStart" =>
                  clients'[Subject].writeQueue = Tail(clients[Subject].writeQueue)
            /\ event'.type = "notification" => clients'[Subject] = clients[Subject]
            /\ event'.type = "request" =>
                  /\ event'.id = 0
                  /\ clients'[Subject] = clients[Subject]]_vars

\* A write has just failed while a request was pending and another packet
\* was still queued behind it.
C32_Witness ==
    LET cl == clients[Subject] IN
    /\ event.type = "writeFailure"
    /\ cl.closed /\ ~cl.isReady /\ cl.pendingRequests = {}
    /\ cl.writeQueue # <<>>
    /\ \E i \in DOMAIN cl.settled : cl.settled[i].kind = "reject"

\* ------------------------------------------------------------------ C33
\* C33: startServer for a language with a registered client returns that
\* client and changes nothing (no process is spawned); the exit of a process
\* removes its client from the registry exactly when it is the client
\* registered for its language, and leaves every other entry alone;
\* stopServer for a language without a client changes nothing and getClient
\* returns null for it.
C33_RegistryHoldsCurrentClient ==
    /\ [](\A language \in Configs :
            /\ registry[language] # 0 =>
                  /\ startServer(AdapterState, language, ConfigCommand(language)) = AdapterState
                  /\ getClient(AdapterState, language) = registry[language]
            /\ registry[language] = 0 =>
                  /\ stopServer(AdapterState, language) = AdapterState
                  /\ getClient(AdapterState, language) = 0)
    /\ [][/\ (event'.type = "startServer" =>
                /\ event'.id # 0
                /\ clients'[event'.id].spawned
                /\ registry'[clients'[event'.id].language] = event'.id
                /\ (registry[clients'[event'.id].language] # 0 =>
                       /\ event'.id = registry[clients'[event'.id].language]
                       /\ registry' = registry /\ clients' = clients)
                /\ \A c \in ClientIds : clients[c].spawned => clients'[c] = clients[c])
           /\ (event'.type = "stopServer" /\ event'.id = 0 =>
                registry' = registry /\ clients' = clients)
           /\ (event'.type = "exit" =>
                registry' = [language \in Configs |->
                                IF registry[language] = event'.id THEN 0
                                ELSE registry[language]])]_vars

\* A stopped server has exited after a new client was registered for its
\* language, and the new client is still registered.
C33_Witness ==
    /\ event.type = "exit"
    /\ clients[event.id].shutdownPc # "idle"
    /\ \E language \in Configs :
          /\ clients[event.id].language = language
          /\ registry[language] \notin {0, event.id}
          /\ ~clients[registry[language]].exited

\* ------------------------------------------------------------------ C34
\* The positions in a packet sequence of the packets of a method.
PacketsOf(packets, method) == {i \in DOMAIN packets : packets[i].method = method}

\* C34: a shutdown() that has sent its request returns, whatever the server
\* does; the exit notification is enqueued, and written, only after the
\* shutdown request, and only once that request has been settled; when
\* shutdown() has returned the client is closed, its pending-request table
\* is empty and the process has been killed; shutdown() on a closed client
\* enqueues nothing and returns at once.
C34_ShutdownTerminates ==
    /\ (clients[Subject].shutdownPc \in {"request", "race"})
            ~> (clients[Subject].shutdownPc = "done")
    /\ [](\A i \in PacketsOf(clients[Subject].sendOrder, "exit") :
            \E j \in PacketsOf(clients[Subject].sendOrder, "shutdown") :
                /\ j < i
                /\ SettleCount(clients[Subject], clients[Subject].sendOrder[j].id) = 1)
    /\ [](\A i \in PacketsOf(clients[Subject].written, "exit") :
            \E j \in PacketsOf(clients[Subject].written, "shutdown") : j < i)
    /\ [](clients[Subject].shutdownPc = "done" =>
            /\ clients[Subject].closed
            /\ clients[Subject].pendingRequests = {}
            /\ clients[Subject].timeouts = {}
            /\ clients[Subject].kills >= 1)
    /\ [][event'.type = "shutdown" /\ clients[Subject].closed =>
            /\ clients'[Subject].sendOrder = clients[Subject].sendOrder
            /\ clients'[Subject].writeQueue = clients[Subject].writeQueue
            /\ clients'[Subject].shutdownPc = "done"]_vars

\* shutdown() has returned after the delay of its race elapsed: the server
\* neither answered in time nor exited, and both packets were written.
C34_Witness ==
    /\ event.type = "delay"
    /\ clients[Subject].shutdownPc = "done"
    /\ ~clients[Subject].exited
    /\ \E i \in DOMAIN clients[Subject].settled :
          clients[Subject].settled[i].kind = "reject"
    /\ PacketsOf(clients[Subject].written, "exit") # {}

\* ------------------------------------------------------------------ C35
KindsOf(segments) == {segments[i].kind : i \in DOMAIN segments}

\* C35: when a stream that contains header blocks without a usable
\* Content-Length and frames whose complete body is not JSON has been read,
\* however it was cut into chunks, the messages handled are exactly the
\* well-formed messages of the stream, unchanged and in order, and nothing
\* is left in the receive buffer: a bad header block was dropped through its
\* terminator and a bad body through exactly its declared length.
C35_FramerRecovers ==
    wire.fed = Len(wire.bytes) /\ KindsOf(wire.segments) # {"message"} =>
        /\ framer.delivered = wire.payloads
        /\ framer.receiveBuffer = <<>>

\* A stream of a bad header block, a frame with a non-JSON body and a
\* message has been read to its end and the message was handled.
C35_Witness ==
    /\ wire.fed = Len(wire.bytes)
    /\ Len(wire.segments) = 3
    /\ wire.segments[1].kind = "header"
    /\ wire.segments[2].kind = "body"
    /\ wire.segments[3].kind = "message"
    /\ framer.delivered = <<wire.segments[3].value>>

\* ------------------------------------------------------------------ C36
\* The Content-Length a packet declares (-1: none).
DeclaredLength(packet) ==
    IF findHeaderEnd(packet) = -1 THEN -1
    ELSE parseContentLength(Slice(packet, 0, findHeaderEnd(packet)))

\* C36: the packet of every message declares the number of bytes of the
\* UTF-8 encoding of its JSON text and consists of the header, the blank
\* line and those bytes; and when the packets of m1..mk have been read,
\* however they were cut into chunks, exactly m1..mk were handled, in order,
\* and the receive buffer is empty.
C36_EncodeDecodeRoundTrip ==
    KindsOf(wire.segments) = {"message"} =>
        /\ \A i \in DOMAIN wire.payloads :
              LET packet == encodeMessage(wire.payloads[i]) IN
              /\ DeclaredLength(packet) = Len(Utf8Encode(wire.payloads[i]))
              /\ Slice(packet, findHeaderEnd(packet) + 4, Len(packet))
                    = Utf8Encode(wire.payloads[i])
        /\ wire.fed = Len(wire.bytes) =>
              /\ framer.delivered = wire.payloads
              /\ framer.receiveBuffer = <<>>

\* Two messages, the first with a character of two bytes, were read in
\* chunks and handled.
C36_Witness ==
    /\ KindsOf(wire.segments) = {"message"}
    /\ Len(wire.payloads) >= 2
    /\ Len(Utf8Encode(wire.payloads[1])) > Len(wire.payloads[1])
    /\ wire.fed = Len(wire.bytes)
    /\ framer.delivered = wire.payloads

\* ------------------------------------------------------------------ C37
\* What the claim asks of a position, of an entry, and of a delivered
\* diagnostic.
NumericPosition(position) ==
    position.isRecord /\ position.line.type = "number"
                      /\ position.character.type = "number"

ValidEntry(item) ==
    /\ item.isRecord /\ item.range.isRecord
    /\ NumericPosition(item.range.start) /\ NumericPosition(item.range.end)
    /\ item.message.type = "string" /\ item.message # JsString(0)

WellFormedDiagnostic(d) ==
    /\ \A position \in {d.range.start, d.range.end} :
          position.line.type = "number" /\ position.column.type = "number"
    /\ d.message.type = "string" /\ d.message # JsString(0)
    /\ d.severity \in {"error", "warning", "info", "hint"}

\* The positions of the valid entries of a list, in order.
ValidPositions(items) == {i \in DOMAIN items : ValidEntry(items[i])}

\* C37: after a publishDiagnostics was handled, no callback was called when
\* the params are not an object, the uri is not a string or diagnostics is
\* not an array; otherwise every callback was called once with the uri and
\* with a list that holds, for exactly the valid entries and in their
\* order, a diagnostic with the entry's range and message, all of them well
\* formed.
C37_DiagnosticsAreNormalized ==
    event.type = "published" =>
        LET params == event.params
            items == params.diagnostics
        IN IF ~params.isRecord \/ params.uri.type # "string" \/ ~params.isArray
           THEN event.calls = <<>>
           ELSE /\ Len(event.calls) = clients[Subject].diagnosticsCallbacks
                /\ \A c \in DOMAIN event.calls :
                      LET delivered == event.calls[c].diagnostics IN
                      /\ event.calls[c].uri = params.uri
                      /\ \A k \in DOMAIN delivered : WellFormedDiagnostic(delivered[k])
                      /\ Len(delivered) = Cardinality(ValidPositions(items))
                      /\ \A k \in DOMAIN delivered :
                            \E i \in ValidPositions(items) :
                               /\ Cardinality({j \in ValidPositions(items) : j <= i}) = k
                               /\ delivered[k].message = items[i].message
                               /\ delivered[k].range.start.line = items[i].range.start.line
                               /\ delivered[k].range.start.column
                                     = items[i].range.start.character
                               /\ delivered[k].range.end.line = items[i].range.end.line
                               /\ delivered[k].range.end.column
                                     = items[i].range.end.character
                               /\ delivered[k].severity
                                     = normalizeSeverity(items[i].severity)

\* Two callbacks were called with one diagnostic: of the two entries the
\* first had a start line that is not a number, the second was valid and
\* had no usable severity.
C37_Witness ==
    /\ event.type = "published"
    /\ Len(event.calls) = 2
    /\ Len(event.params.diagnostics) = 2
    /\ event.params.diagnostics[1].isRecord
    /\ event.params.diagnostics[1].range.start.line.type = "string"
    /\ ValidEntry(event.params.diagnostics[2])
    /\ event.params.diagnostics[2].severity = JsUndefined
    /\ Len(event.calls[1].diagnostics) = 1
    /\ event.calls[1].diagnostics[1].severity = "error"

\* ------------------------------------------------------------------ C38
\* The step consists of dispatches of the runtime itself and of nothing the
\* user did.
OnlyInternalDispatch ==
    /\ dispatched' # <<>>
    /\ buffers' = buffers /\ rootPath' = rootPath
    /\ \A i \in DOMAIN dispatched' : dispatched'[i].type = "SET_BUFFER_DIAGNOSTICS"

ResolvesToServer(language) ==
    \/ language \in Configs
    \/ language \in {"javascript", "javascriptreact", "typescriptreact"}
       /\ "typescript" \in Configs

CanBeTracked(buffer) ==
    buffer.filePath # "none" /\ buffer.language # "none" /\ ResolvesToServer(buffer.language)

\* C39: a tracked buffer has a file path and a language with a server,
\* directly or through an alias; a transition of the user that takes the
\* path or the resolvable language from a tracked buffer untracks it; one
\* that changes its uri or language id replaces the document by a new one
\* at version 1 with the new uri and language id; and a didOpen carries the
\* language id of its buffer.
C39_TrackedOnlyIfResolvable ==
    /\ [](\A b \in Buffers : documents[b] # 0 => CanBeTracked(buffers[b]))
    /\ [](\A i \in DOMAIN sent :
            sent[i].method = "didOpen" =>
                sent[i].languageId = buffers[sent[i].bufferId].language)
    /\ [][\A b \in Buffers :
            /\ documents[b] # 0 /\ buffers'[b].status = "open"
            /\ buffers'[b] # buffers[b]
            /\ ~CanBeTracked(buffers'[b])
            => documents'[b] = 0]_vars
    /\ [][\A b \in Buffers :
            /\ documents[b] # 0 /\ buffers'[b].status = "open"
            /\ buffers'[b] # buffers[b]
            /\ CanBeTracked(buffers'[b])
            /\ \/ docs[documents[b]].uri # Uri(buffers'[b].filePath)
               \/ docs[documents[b]].languageId # buffers'[b].language
            => /\ documents'[b] \notin {0, documents[b]}
               /\ docs'[documents'[b]].version = 1
               /\ docs'[documents'[b]].uri = Uri(buffers'[b].filePath)
               /\ docs'[documents'[b]].languageId = buffers'[b].language]_vars

\* ------------------------------------------------------------------ C40
\* Buffer b has a tracked document whose uri is u.
TrackedAt(b, u) == documents[b] # 0 /\ docs[documents[b]].uri = u

\* C40: the uri index is the exact inverse of the tracked documents: a
\* buffer id is in the set the index holds for a uri exactly when that
\* buffer has a tracked document with that uri, and no key of the index
\* holds an empty set.  Opening, closing, a change of a buffer's path, a
\* change of the workspace root and stop() keep it.
C40_UriIndexIsInverse ==
    /\ DOMAIN uriToBufferIds \subseteq Uris
    /\ \A u \in DOMAIN uriToBufferIds :
            /\ uriToBufferIds[u] # {}
            /\ uriToBufferIds[u] \subseteq Buffers
    /\ \A u \in Uris, b \in Buffers :
            (u \in DOMAIN uriToBufferIds /\ b \in uriToBufferIds[u]) <=> TrackedAt(b, u)

\* Two buffers are tracked under one uri.
C40_Witness ==
    \E u \in DOMAIN uriToBufferIds : uriToBufferIds[u] = Buffers

====
